---- MODULE Spec2Model ----
(***************************************************************************)
(* Model of the resilient API clients of the Telegram bot:                 *)
(*   - CRMClient (app_bot/crm_service/crm_client.py): the bearer token,    *)
(*     its buffer-adjusted expiry, the asyncio lock around the login       *)
(*     exchange and the 401 invalidation of _request;                      *)
(*   - NspdClient (app_bot/nspd_service/nspd_client.py): the circuit       *)
(*     breaker around get_object_info.                                     *)
(* Tasks are asyncio tasks of one event loop: a step of the model is the   *)
(* code a task runs between two suspension points (an awaited HTTP call,   *)
(* or the wait for a lock that another task holds).                        *)
(***************************************************************************)
EXTENDS Integers, Sequences, FiniteSets, TLC

(* ------------------------------ bounds --------------------------------- *)
\* number of concurrently running asyncio tasks
NumTasks == 2
\* total number of public CRM calls started in one behaviour
MaxCalls == 3
\* seconds the CRM clock advances in one Tick
TimeStep == 30
\* number of Ticks of the CRM clock in one behaviour
MaxTicks == 2

\* total number of get_object_info calls started in one behaviour
NspdMaxCalls == 4
\* minutes the geoportal client's clock advances in one NspdTick
NspdTimeStep == 5
\* number of NspdTicks in one behaviour
NspdMaxTicks == 4

\* largest number of vertices of a polygon ring
MaxRingLen == 4
\* The deals of one answer of the CRM and the executors of one deal.
MaxDeals == 2
MaxExecutors == 1
\* The items of a file_ids list.
MaxFileIds == 2
\* The last day a date range may start or end on.
MaxDay == 2
\* The visit times of a new deal: minutes after a midnight, WallStep apart.
WallStep == 45
MaxWallSteps == 40
\* The deals loaded for the days offered to the user.
MaxPeriodDeals == 3
\* The largest daily limit.
MaxLimit == 2
\* The minutes a map request may live and the ticks of the map backend's clock.
MaxExpiresIn == 2
MaxMapTicks == 3
\* The files sent in one add-files conversation.
MaxFiles == 3

(* --------------------------- program constants ------------------------- *)
\* cooldown_minutes: int = 5 in NspdClient.__init__
cooldown_minutes == 5
\* buffer_seconds = 60 in CRMClient._login
buffer_seconds == 60
\* token_data.get("expires_in", 3600)
DefaultExpiresIn == 3600

Tasks == 1..NumTasks

\* Python's Optional: None is the empty tuple, a value v is <<v>>.
None == <<>>
Some(v) == <<v>>

\* Token strings the login endpoint may issue.
Tokens == {"T1", "T2"}
\* The "expires_in" values the login endpoint may declare, in seconds.
Lifetimes == {60, 90}
\* The "expires_in" of a login response: None when the key is absent.
DeclaredLifetimes == {None} \cup {Some(l) : l \in Lifetimes}
\* Outcomes of the login exchange that are not a usable token.
LoginFailures == {"http_error", "request_error", "malformed", "no_token", "empty_token"}
\* Outcomes of a CRM request other than 200 with a JSON body.
RequestFailures == {"http_401", "http_error", "request_error", "decode_error"}

VARIABLES
  \* ---- CRMClient fields
  access_token,       \* self._access_token: None or Some(string)
  token_expires_at,   \* self._token_expires_at: None or Some(seconds)
  crm_lock,           \* self._lock: FIFO of tasks, the head holds the lock
  \* ---- the CRM clock, datetime.now(timezone.utc), in seconds
  now,
  \* ---- per-task position in get_access_token / _request
  crm_pc,             \* "idle" | "gat_acquire" | "gat_login" | "req_send" | "req_401"
  crm_op,             \* the public call the task is in: "get_access_token" | "_request"
  crm_tok,            \* the local `token` of _request
  \* ---- history
  calls,              \* public CRM calls started so far
  issue,              \* None or Some([at, expires_in]) of the login that stored the token
  prev,               \* the last completed get_access_token: [ret, logins]
  pending_inval,      \* "pending": a 401 cleared the token and no get_access_token
                      \* ran since; "relogin": the login it forced is in flight
  cohort,             \* the current group of concurrent get_access_token callers
  ev,                 \* the step just taken
  \* ---- NspdClient fields
  circuit_state,      \* self._circuit_state: "CLOSED" | "OPEN" | "HALF_OPEN"
  failure_count,      \* self._failure_count
  last_failure_time,  \* self._last_failure_time: None or Some(minutes)
  \* ---- the geoportal client's clock, datetime.now(), in minutes
  nspd_now,
  \* ---- the geoportal: "any" answer is possible, or from now on it is
  \* "healthy" and every search request succeeds
  upstream,
  \* ---- per-task position in get_object_info
  nspd_pc,            \* "idle" | "search" | "related"
  nspd_feature,       \* the feature whose related objects the task is fetching
  \* ---- history
  nspd_trial,         \* the task's search request was issued in HALF_OPEN
  nspd_calls,         \* get_object_info calls started so far
  consec_fails,       \* failures recorded since the last recorded success
  recorded,           \* the last three handlers run: "failure" | "success" | "-"
  outage_sent,        \* None, or Some(time of the last search request issued since
                      \* the breaker opened), no success having been recorded since
  nev,                \* the geoportal step just taken
  \* ---- _calculate_polygon_centroid
  polygon_wgs84,      \* its argument: a sequence of rings, the outer ring first
  centroid,           \* None, or Some(the list it returned)
  \* ---- the coordinate order of get_object_info
  geometry,           \* the geometry found, in WGS 84: [type, coordinates]
  ordered,            \* None, or Some([order, coordinates_wgs84, centroid_wgs84])
  \* ---- the employee enrichment of one answer of the CRM
  response,           \* the "data" list of the answer: a sequence of deals
  deals,              \* None, or Some([by, data]): the list a method returned
  \* ---- the attachment of files to a deal
  deal_files,         \* the file ids the CRM holds in each file field of the deal
  attached,           \* None, or Some(the attach call made and what it wrote)
  \* ---- the typed deals of a date range
  validated,          \* None, or Some(the call of get_deals_for_date_range_model)
  \* ---- the creation of a deal
  created,            \* None, or Some(the call of create_deal and the payload it posted)
  \* ---- the other public operations of the CRM client
  performed,          \* None, or Some([op, ret]): the operation called, what it returned
  \* ---- the ticket-creation conversation of one user
  fsm_state,          \* the state of AddTicketFSM, "none" outside the conversation
  fsm_data,           \* the FSM data: deals_on_period and visit_date
  limits,             \* the default daily limit and the overrides by date
  tev,                \* the handler just run and what it saw
  \* ---- the map-data endpoint
  map_requests,       \* the rows of map_requests: token -> None or Some(row)
  map_now,            \* datetime.now(timezone.utc) of the map backend, in minutes
  refused,            \* the tokens that were refused as expired so far
  mev,                \* the request just answered: token, status, body
  \* ---- concurrent attach calls on one field of one deal
  attach_calls,       \* per task: position in the attach method, its new ids,
                      \* the list it posts, the answer to its POST, its result
  attach_start,       \* the ids the field held before the calls
  \* ---- the add-files conversation of one user
  files_state,        \* the state of AddFilesFSM, "none" outside the conversation
  files_data,         \* the FSM data: None when cleared, or Some(uploaded_file_ids)
  files_tasks,        \* per process_file task: its position and its file
  files_uploaded,     \* the ids the CRM gave to uploads while the conversation ran
  files_complete      \* complete_add_files: its position and the list it attaches

crm_vars == <<access_token, token_expires_at, crm_lock, now, crm_pc, crm_op, crm_tok>>
crm_hist == <<calls, issue, prev, pending_inval, cohort, ev>>
nspd_vars == <<circuit_state, failure_count, last_failure_time, nspd_now, nspd_pc,
              nspd_feature, upstream>>
nspd_hist == <<nspd_trial, nspd_calls, consec_fails, recorded, outage_sent, nev>>
crm_all == <<crm_vars, crm_hist>>
nspd_all == <<nspd_vars, nspd_hist>>
geo_vars == <<polygon_wgs84, centroid, geometry, ordered>>
enrich_vars == <<response, deals>>
attach_vars == <<deal_files, attached>>
ticket_vars == <<fsm_state, fsm_data, limits, tev>>
map_vars == <<map_requests, map_now, refused, mev>>
race_vars == <<attach_calls, attach_start>>
files_vars == <<files_state, files_data, files_tasks, files_uploaded, files_complete>>
bot_vars == <<ticket_vars, map_vars, race_vars, files_vars>>
ops_vars == <<enrich_vars, attach_vars, validated, created, performed, bot_vars>>
vars == <<crm_all, nspd_all, geo_vars, ops_vars>>

(* ----------------------------- history --------------------------------- *)

\* ev.gat of a step in which no get_access_token call returned.
NoGat == [done |-> FALSE, ret |-> None, logins |-> 0, fresh |-> FALSE]

\* The step just taken: its kind, its task, the outcome of the HTTP exchange it
\* handled, the get_access_token return it made (gat) and the _request return it
\* made (req: "-" for none, else "None" or "json").
Event(kind, t, out, gat, req) ==
  [kind |-> kind, task |-> t, out |-> out, gat |-> gat, req |-> req]

\* No group of concurrent callers is being followed.
CohortNone == [members |-> {}, phase |-> "none", size |-> 0, logins |-> 0,
               rets |-> {}, first_ok |-> FALSE, undisturbed |-> TRUE]

\* A group is followed from the call that finds the lock free and no valid token
\* (phase "forming": its login is in flight, callers arriving now join), through
\* the return of its members ("serving") to the state in which the last member
\* has returned ("done"); the record is dropped by the step after that.
CohortBase == IF cohort.phase = "done" THEN CohortNone ELSE cohort

(* ----------------------------- CRMClient ------------------------------- *)

\* A test that takes every value, None included, for a token.
TruthyAlways(tok) == TRUE

\* Python truthiness of an Optional[str]: None and "" are falsy.
Truthy(tok) == tok # None /\ tok # Some("")

\* CRMClient._is_token_valid with the comparison turned round.
IsTokenValidInverted ==
  /\ Truthy(access_token)
  /\ token_expires_at # None
  /\ token_expires_at[1] < now

\* CRMClient._is_token_valid with the buffer subtracted a second time.
IsTokenValidDoubleBuffer ==
  /\ Truthy(access_token)
  /\ token_expires_at # None
  /\ token_expires_at[1] - buffer_seconds > now

\* CRMClient._is_token_valid
IsTokenValid ==
  /\ Truthy(access_token)
  /\ token_expires_at # None
  /\ token_expires_at[1] > now

\* The lock is free: nobody holds it and nobody waits for it.
LockFree == crm_lock = <<>>

\* Lock ownership that any queued task is given (no mutual exclusion).
HoldsLockAnyQueued(t) == \E i \in 1..Len(crm_lock) : crm_lock[i] = t

\* Task t holds self._lock: asyncio.Lock wakes its waiters in FIFO order.
HoldsLock(t) == crm_lock # <<>> /\ Head(crm_lock) = t

\* A release that leaves the task in the queue of the lock.
WithoutNobody(q, t) == q

\* The lock queue q without task t.
Without(q, t) == SelectSeq(q, LAMBDA u : u # t)

\* CRMClient._login without the safety buffer.
LoginExpiryNoBuffer(expires_in) == now + expires_in

\* CRMClient._login: datetime.now(utc) + timedelta(seconds=expires_in - buffer_seconds)
LoginExpiry(expires_in) == now + expires_in - buffer_seconds

\* token_data.get("expires_in", 3600)
ExpiresIn(e) == IF e = None THEN DefaultExpiresIn ELSE e[1]

\* A failed login that leaves the stored token as it was.
TokenAfterFailedLoginKept(f) == access_token

\* CRMClient._login, what self._access_token holds once the exchange failed:
\* "" when the response carried an empty access_token, None in every other case.
TokenAfterFailedLogin(f) == IF f = "empty_token" THEN Some("") ELSE None

\* CRMClient._login, self._token_expires_at once the exchange failed.
ExpiryAfterFailedLogin(f) == None

\* A 401 that leaves the stored token as it was.
TokenAfter401Kept == access_token

\* CRMClient._request, the 401 branch: self._access_token = None
TokenAfter401 == None

\* The clock is before login time + declared lifetime - buffer of the stored token.
InWindow ==
  /\ issue # None
  /\ now < issue[1].at + issue[1].expires_in - buffer_seconds

\* The group's record once task t has run the locked region (started: it logs in).
CohortServe(t, started) ==
  IF t \in CohortBase.members
  THEN [CohortBase EXCEPT
          !.undisturbed = IF CohortBase.phase = "serving" THEN @ /\ InWindow ELSE @,
          !.logins = IF started THEN @ + 1 ELSE @]
  ELSE CohortBase

\* get_access_token of task t returns r, having started n logins; the lock is
\* released. In _request the returned token is tested (`if not token`) and the
\* HTTP request is sent with no suspension in between. lg is the group's record
\* before this return is entered in it.
GatReturn(t, op, r, n, lg, kind, out) ==
  /\ crm_lock' = Without(crm_lock, t)
  /\ IF op = "_request" /\ Truthy(r)
     THEN /\ crm_pc' = [crm_pc EXCEPT ![t] = "req_send"]
          /\ crm_op' = [crm_op EXCEPT ![t] = op]
          /\ crm_tok' = [crm_tok EXCEPT ![t] = r]
     ELSE /\ crm_pc' = [crm_pc EXCEPT ![t] = "idle"]
          /\ crm_op' = [crm_op EXCEPT ![t] = "none"]
          /\ crm_tok' = [crm_tok EXCEPT ![t] = None]
  /\ prev' = [ret |-> r, logins |-> n]
  /\ pending_inval' = "no"
  /\ cohort' = IF t \in lg.members
               THEN [lg EXCEPT !.members = @ \ {t},
                               !.rets = @ \cup {r},
                               !.phase = IF lg.members = {t} THEN "done" ELSE "serving"]
               ELSE lg
  /\ ev' = Event(kind, t, out,
                 [done |-> TRUE, ret |-> r, logins |-> n,
                  fresh |-> token_expires_at' # None /\ now < token_expires_at'[1]],
                 IF op = "_request" /\ ~Truthy(r) THEN "None" ELSE "-")

\* The locked region of get_access_token, run by task t that has just got the
\* lock: a valid token is returned at once, otherwise the login exchange is sent
\* and the task is suspended holding the lock.
GatBody(t, op) ==
  IF IsTokenValid
  THEN /\ UNCHANGED <<access_token, token_expires_at, issue>>
       /\ GatReturn(t, op, access_token, 0, CohortServe(t, FALSE), "body_reuse", "-")
  ELSE /\ UNCHANGED <<access_token, token_expires_at, issue, crm_tok, prev>>
       /\ crm_lock' = IF LockFree THEN <<t>> ELSE crm_lock
       /\ crm_pc' = [crm_pc EXCEPT ![t] = "gat_login"]
       /\ crm_op' = [crm_op EXCEPT ![t] = op]
       /\ pending_inval' = IF pending_inval = "pending" THEN "relogin" ELSE pending_inval
       /\ cohort' = IF LockFree /\ CohortBase.members = {}
                    THEN [CohortNone EXCEPT !.members = {t}, !.phase = "forming",
                                            !.size = 1, !.logins = 1]
                    ELSE CohortServe(t, TRUE)
       /\ ev' = Event("body_login", t, "-", NoGat, "-")

\* A task calls get_access_token (op = "get_access_token") or _request, whose
\* first statement is `token = await self.get_access_token()`. `async with
\* self._lock` does not suspend when the lock is free.
Call(t, op) ==
  /\ UNCHANGED <<nspd_all, geo_vars, ops_vars>>
  /\ crm_pc[t] = "idle"
  /\ calls < MaxCalls
  /\ calls' = calls + 1
  /\ now' = now
  /\ IF LockFree
     THEN GatBody(t, op)
     ELSE /\ crm_lock' = Append(crm_lock, t)
          /\ crm_pc' = [crm_pc EXCEPT ![t] = "gat_acquire"]
          /\ crm_op' = [crm_op EXCEPT ![t] = op]
          /\ cohort' = IF CohortBase.phase = "forming"
                       THEN [CohortBase EXCEPT !.members = @ \cup {t}, !.size = @ + 1]
                       ELSE CohortBase
          /\ ev' = Event("call", t, "-", NoGat, "-")
          /\ UNCHANGED <<access_token, token_expires_at, crm_tok, issue, prev,
                         pending_inval>>

CallGetAccessToken(t) == Call(t, "get_access_token")

CallRequest(t) == Call(t, "_request")

\* A task waiting in `async with self._lock` of get_access_token gets the lock.
GatAcquire(t) ==
  /\ UNCHANGED <<nspd_all, geo_vars, ops_vars>>
  /\ crm_pc[t] = "gat_acquire"
  /\ HoldsLock(t)
  /\ GatBody(t, crm_op[t])
  /\ UNCHANGED <<now, calls>>

\* The login exchange answers with a token: _login stores it and the expiry and
\* returns True; get_access_token returns self._access_token.
LoginOk(t, tok, e) ==
  /\ UNCHANGED <<nspd_all, geo_vars, ops_vars>>
  /\ crm_pc[t] = "gat_login"
  /\ access_token' = Some(tok)
  /\ token_expires_at' = Some(LoginExpiry(ExpiresIn(e)))
  /\ issue' = Some([at |-> now, expires_in |-> ExpiresIn(e)])
  /\ GatReturn(t, crm_op[t], access_token', 1,
               IF t \in CohortBase.members /\ CohortBase.phase = "forming"
               THEN [CohortBase EXCEPT !.first_ok = TRUE] ELSE CohortBase,
               "login_ok", "ok")
  /\ UNCHANGED <<now, calls>>

\* The login exchange fails: HTTP error status, network error, undecodable or
\* malformed body, body without access_token. _login returns False and
\* get_access_token returns None.
LoginFail(t, f) ==
  /\ UNCHANGED <<nspd_all, geo_vars, ops_vars>>
  /\ crm_pc[t] = "gat_login"
  /\ access_token' = TokenAfterFailedLogin(f)
  /\ token_expires_at' = ExpiryAfterFailedLogin(f)
  /\ issue' = None
  /\ GatReturn(t, crm_op[t], None, 1, CohortBase, "login_fail", f)
  /\ UNCHANGED <<now, calls>>

\* The CRM answers a request with 200 and a JSON body: _request returns it.
RequestOk(t) ==
  /\ UNCHANGED <<nspd_all, geo_vars, ops_vars>>
  /\ crm_pc[t] = "req_send"
  /\ crm_pc' = [crm_pc EXCEPT ![t] = "idle"]
  /\ crm_op' = [crm_op EXCEPT ![t] = "none"]
  /\ crm_tok' = [crm_tok EXCEPT ![t] = None]
  /\ cohort' = CohortBase
  /\ ev' = Event("req_ok", t, "ok", NoGat, "json")
  /\ UNCHANGED <<access_token, token_expires_at, crm_lock, now, calls, issue, prev,
                 pending_inval>>

\* A test that sends every HTTP error status to the 401 branch.
ClearsTokenOnAnyStatus(f) == f \in {"http_401", "http_error"}

\* _request, except httpx.HTTPStatusError: e.response.status_code == 401
ClearsToken(f) == f = "http_401"

\* The 401 branch of _request with the lock in hand: the token is cleared, the
\* lock released and None returned.
Invalidate(t, f) ==
  /\ access_token' = TokenAfter401
  /\ crm_lock' = Without(crm_lock, t)
  /\ crm_pc' = [crm_pc EXCEPT ![t] = "idle"]
  /\ crm_op' = [crm_op EXCEPT ![t] = "none"]
  /\ crm_tok' = [crm_tok EXCEPT ![t] = None]
  /\ pending_inval' = "pending"
  /\ cohort' = IF CohortBase.members # {}
               THEN [CohortBase EXCEPT !.undisturbed = FALSE] ELSE CohortBase
  /\ ev' = Event("clear401", t, f, NoGat, "None")
  /\ UNCHANGED <<token_expires_at, now, calls, issue, prev>>

\* A request fails. On HTTP 401 the token is cleared under the lock (at once
\* when the lock is free); every failure returns None.
RequestFail(t, f) ==
  /\ UNCHANGED <<nspd_all, geo_vars, ops_vars>>
  /\ crm_pc[t] = "req_send"
  /\ IF ClearsToken(f)
     THEN IF LockFree
          THEN Invalidate(t, f)
          ELSE /\ crm_lock' = Append(crm_lock, t)
               /\ crm_pc' = [crm_pc EXCEPT ![t] = "req_401"]
               /\ cohort' = CohortBase
               /\ ev' = Event("wait401", t, f, NoGat, "-")
               /\ UNCHANGED <<access_token, token_expires_at, now, crm_op, crm_tok,
                              calls, issue, prev, pending_inval>>
     ELSE /\ crm_pc' = [crm_pc EXCEPT ![t] = "idle"]
          /\ crm_op' = [crm_op EXCEPT ![t] = "none"]
          /\ crm_tok' = [crm_tok EXCEPT ![t] = None]
          /\ cohort' = CohortBase
          /\ ev' = Event("req_fail", t, f, NoGat, "None")
          /\ UNCHANGED <<access_token, token_expires_at, crm_lock, now, calls,
                         issue, prev, pending_inval>>

\* A task waiting in `async with self._lock` of the 401 branch gets the lock.
InvalidateAcquire(t) ==
  /\ UNCHANGED <<nspd_all, geo_vars, ops_vars>>
  /\ crm_pc[t] = "req_401"
  /\ HoldsLock(t)
  /\ Invalidate(t, "http_401")

\* The CRM clock advances.
Tick ==
  /\ UNCHANGED <<nspd_all, geo_vars, ops_vars>>
  /\ now + TimeStep <= MaxTicks * TimeStep
  /\ now' = now + TimeStep
  /\ cohort' = CohortBase
  /\ ev' = Event("tick", 0, "-", NoGat, "-")
  /\ UNCHANGED <<access_token, token_expires_at, crm_lock, crm_pc, crm_op, crm_tok,
                 calls, issue, prev, pending_inval>>

\* CRMClient.__init__
InitCRM ==
  /\ access_token = None
  /\ token_expires_at = None
  /\ crm_lock = <<>>
  /\ now = 0
  /\ crm_pc = [t \in Tasks |-> "idle"]
  /\ crm_op = [t \in Tasks |-> "none"]
  /\ crm_tok = [t \in Tasks |-> None]
  /\ calls = 0
  /\ issue = None
  /\ prev = [ret |-> None, logins |-> 0]
  /\ pending_inval = "no"
  /\ cohort = CohortNone
  /\ ev = Event("init", 0, "-", NoGat, "-")

NextCRM ==
  \/ \E t \in Tasks : CallGetAccessToken(t)
  \/ \E t \in Tasks : CallRequest(t)
  \/ \E t \in Tasks : GatAcquire(t)
  \/ \E t \in Tasks, tok \in Tokens, e \in DeclaredLifetimes : LoginOk(t, tok, e)
  \/ \E t \in Tasks, f \in LoginFailures : LoginFail(t, f)
  \/ \E t \in Tasks : RequestOk(t)
  \/ \E t \in Tasks, f \in RequestFailures : RequestFail(t, f)
  \/ \E t \in Tasks : InvalidateAcquire(t)
  \/ Tick

(* ----------------------------- NspdClient ------------------------------ *)

\* Answers of the search request that are 200 with decodable JSON: a feature
\* with geom id and category ("found_related"), a feature without them
\* ("found"), no feature ("not_found"), JSON of another shape ("bad_shape").
SearchSuccesses == {"found_related", "found", "not_found", "bad_shape"}
\* Failures of the search request that get_object_info catches by name:
\* httpx.TimeoutException, httpx.ConnectError, httpx.HTTPStatusError and
\* json.JSONDecodeError.
SearchFailures == {"timeout", "connect_error", "http_status", "json_decode"}
\* Any other httpx.RequestError (ReadError, WriteError, ProxyError, ...), caught
\* by `except Exception`.
SearchErrors == {"other_request_error"}
\* Answers of the tab-group-data request.
RelatedOutcomes == {"ok_list", "ok_empty", "non_200", "request_error",
                    "json_decode", "bad_shape"}

\* What `geometry` of the first feature holds: nothing, or a geometry of the
\* named type with coordinates.
Geometries == {"absent", "Point", "Polygon", "MultiPolygon"}
\* The first feature of a search answer, with a cadastral number in its
\* options: its geometry.
Features == [geom : Geometries]

\* What data["data"]["features"][0] of a search answer may be: None when the
\* answer has no feature.
SearchFeatures == {None} \cup {Some(f) : f \in Features}

\* The search answers drawn where the geometry of the feature is immaterial.
PlainFeatures == {None, Some([geom |-> "Polygon"])}

\* Exceptions that get_object_info names in its first except clause.
NamedExceptions == {"TimeoutException", "ConnectError", "HTTPStatusError",
                    "JSONDecodeError"}
\* Subclasses of Exception raised inside the try block of get_object_info.
ExceptionSubclasses == NamedExceptions \cup
                       {"ReadError", "AttributeError", "ValidationError"}

\* The exception an outcome of the search request raises in get_object_info.
ExceptionOf(out) ==
  CASE out = "timeout" -> "TimeoutException"
    [] out = "connect_error" -> "ConnectError"
    [] out = "http_status" -> "HTTPStatusError"
    [] out = "json_decode" -> "JSONDecodeError"
    [] out = "other_request_error" -> "ReadError"
    [] out = "bad_shape" -> "AttributeError"

\* An except chain that has the named clause only.
ExceptClauseNamedOnly(exc) ==
  IF exc \in NamedExceptions THEN "named" ELSE "none"

\* The except clause of get_object_info that catches exc.
ExceptClause(exc) ==
  IF exc \in NamedExceptions THEN "named"
  ELSE IF exc \in ExceptionSubclasses THEN "generic"
  ELSE "none"

\* What get_object_info does with exc: both clauses return None, an exception
\* that no clause catches is raised to the caller.
ReturnOnException(exc) == IF ExceptClause(exc) = "none" THEN "raise" ELSE "None"

\* The exception the tab-group-data answer raises inside _get_related_objects.
RelatedRaises(out) ==
  CASE out = "request_error" -> Some("RequestError")
    [] out = "json_decode" -> Some("JSONDecodeError")
    [] out = "bad_shape" -> Some("AttributeError")
    [] OTHER -> None

\* _get_related_objects: except (httpx.RequestError, json.JSONDecodeError)
RelatedEscapes(out) ==
  /\ RelatedRaises(out) # None
  /\ RelatedRaises(out)[1] \notin {"RequestError", "JSONDecodeError"}

\* _get_related_objects: the list it returns, None when it found nothing.
RelatedNumbers(out) == IF out = "ok_list" THEN Some("related_numbers") ELSE None

\* result_data["geometry_type"]: set when the geometry has coordinates.
GeometryType(f) ==
  IF f.geom = "absent" THEN None ELSE Some(f.geom)

\* result_data["coordinates_wgs84"]: set for Polygon and Point.
CoordinatesWgs84(f) ==
  CASE f.geom = "Polygon" -> Some("polygon_wgs84")
    [] f.geom = "Point" -> Some("point_wgs84")
    [] OTHER -> None

\* A centroid computed for every geometry that has coordinates.
CentroidWgs84Always(f) ==
  IF f.geom = "absent" THEN None ELSE Some("centroid")

\* result_data["centroid_wgs84"]: set for Polygon.
CentroidWgs84(f) == IF f.geom = "Polygon" THEN Some("centroid") ELSE None

\* result_data of get_object_info for feature f and the related numbers found.
ResultData(f, related) ==
  [cadastral_number |-> Some("cad_num"),
   original_geometry |-> IF f.geom = "absent" THEN None ELSE Some(f.geom),
   geometry_type |-> GeometryType(f),
   coordinates_wgs84 |-> CoordinatesWgs84(f),
   centroid_wgs84 |-> CentroidWgs84(f),
   related_cadastral_numbers |-> related]

\* CadastralObject.model_validate: cadastral_number is a required str and
\* geometry_type is Optional[Literal["Point", "Polygon"]].
ModelValidate(rd) ==
  /\ rd.cadastral_number # None
  /\ rd.geometry_type \in {None, Some("Point"), Some("Polygon")}

\* The end of get_object_info for feature f: the validated object, or what
\* becomes of the ValidationError.
Finish(f, related) ==
  IF ModelValidate(ResultData(f, related))
  THEN [ret |-> "object", obj |-> Some(ResultData(f, related))]
  ELSE [ret |-> ReturnOnException("ValidationError"), obj |-> None]

\* self._failure_threshold = 2
failure_threshold == 2

\* The cooldown test with >= in place of >.
CooldownElapsedGeq == nspd_now >= last_failure_time[1] + cooldown_minutes

\* get_object_info: datetime.now() > self._last_failure_time + self._cooldown_period
CooldownElapsed == nspd_now > last_failure_time[1] + cooldown_minutes

\* _handle_success that keeps the failure count.
CountAfterSuccessKept == failure_count

\* NspdClient._handle_success: self._failure_count = 0
CountAfterSuccess == 0

\* _handle_success that leaves the breaker state as it was.
StateAfterSuccessKept == circuit_state

\* NspdClient._handle_success: self._circuit_state = CircuitState.CLOSED
StateAfterSuccess == "CLOSED"

\* _handle_failure that adds two to the count.
CountAfterFailureDouble ==
  IF circuit_state = "HALF_OPEN" THEN failure_count ELSE failure_count + 2

\* NspdClient._handle_failure: the count is incremented outside HALF_OPEN only.
CountAfterFailure ==
  IF circuit_state = "HALF_OPEN" THEN failure_count ELSE failure_count + 1

\* _handle_failure that opens the circuit only above the threshold.
StateAfterFailureAbove ==
  IF circuit_state = "HALF_OPEN" THEN "OPEN"
  ELSE IF failure_count + 1 > failure_threshold THEN "OPEN" ELSE circuit_state

\* NspdClient._handle_failure: HALF_OPEN reopens, otherwise the circuit opens
\* once the incremented count reaches the threshold.
StateAfterFailure ==
  IF circuit_state = "HALF_OPEN" THEN "OPEN"
  ELSE IF failure_count + 1 >= failure_threshold THEN "OPEN" ELSE circuit_state

\* NspdClient._handle_failure: the timestamp is set whenever the circuit is
\* (re)opened by this failure.
TimeAfterFailure ==
  IF circuit_state = "HALF_OPEN" \/ failure_count + 1 >= failure_threshold
  THEN Some(nspd_now) ELSE last_failure_time

\* The geoportal step just taken: kind, task, outcome of the HTTP exchange it
\* handled, the breaker before the step (state, count, last failure time), the
\* clock, whether a search request was sent, which handler ran ("-" for none)
\* and what get_object_info returned ("-" when it did not return).
NspdEvent(kind, t, out, sent, handler, ret) ==
  [kind |-> kind, task |-> t, out |-> out,
   before |-> circuit_state, count_before |-> failure_count,
   lft_before |-> last_failure_time, at |-> nspd_now,
   sent_before |-> outage_sent,
   trial |-> IF t \in Tasks THEN nspd_trial[t] ELSE FALSE,
   sent |-> sent, handler |-> handler, ret |-> ret,
   feature |-> None, obj |-> None]

\* The step in which get_object_info read feature f (None: no feature) and
\* ended with res: what it returned and, for an object, the object.
NspdReturn(kind, t, out, handler, f, res) ==
  [NspdEvent(kind, t, out, FALSE, handler, res.ret) EXCEPT
     !.feature = f, !.obj = res.obj]

\* The last three handlers run, once handler h has run.
Record(h) == <<recorded[2], recorded[3], h>>

\* get_object_info up to its first suspension: the breaker check under the lock
\* (never contended: no holder of self._lock suspends), then either the
\* fail-fast return or the search request.
GetObjectInfo(t) ==
  /\ UNCHANGED <<crm_all, geo_vars, ops_vars>>
  /\ nspd_pc[t] = "idle"
  /\ nspd_calls < NspdMaxCalls \/ upstream = "healthy"
  /\ nspd_calls' = IF nspd_calls < NspdMaxCalls THEN nspd_calls + 1 ELSE nspd_calls
  /\ IF circuit_state = "OPEN" /\ ~CooldownElapsed
     THEN /\ nev' = NspdEvent("call", t, "-", FALSE, "-", "None")
          /\ UNCHANGED <<circuit_state, nspd_pc, nspd_trial, outage_sent>>
     ELSE /\ circuit_state' = IF circuit_state = "OPEN" THEN "HALF_OPEN"
                              ELSE circuit_state
          /\ nspd_pc' = [nspd_pc EXCEPT ![t] = "search"]
          /\ nspd_trial' = [nspd_trial EXCEPT ![t] = (circuit_state' = "HALF_OPEN")]
          /\ outage_sent' = IF circuit_state \in {"OPEN", "HALF_OPEN"}
                             THEN Some(nspd_now) ELSE outage_sent
          /\ nev' = NspdEvent("call", t, "-", TRUE, "-", "-")
  /\ UNCHANGED <<failure_count, last_failure_time, nspd_now, nspd_feature, upstream,
                 consec_fails, recorded>>

\* The search request answers 200 with decodable JSON: _handle_success runs,
\* then the body is read. No feature: None is returned. JSON of an unexpected
\* shape raises an AttributeError. A feature f with geom id and category leads
\* to the tab-group-data request; any other feature is turned into the result.
SearchSuccess(t, out, f) ==
  /\ UNCHANGED <<crm_all, geo_vars, ops_vars>>
  /\ nspd_pc[t] = "search"
  /\ (out \in {"found", "found_related"}) <=> (f # None)
  /\ failure_count' = CountAfterSuccess
  /\ circuit_state' = StateAfterSuccess
  /\ consec_fails' = 0
  /\ recorded' = Record("success")
  /\ outage_sent' = None
  /\ nspd_pc' = [nspd_pc EXCEPT ![t] = IF out = "found_related" THEN "related"
                                       ELSE "idle"]
  /\ nspd_feature' = [nspd_feature EXCEPT ![t] = IF out = "found_related" THEN f
                                                 ELSE None]
  /\ nspd_trial' = [nspd_trial EXCEPT ![t] = FALSE]
  /\ nev' = NspdReturn("search_resp", t, out, "success", f,
                       CASE out = "found_related" -> [ret |-> "-", obj |-> None]
                         [] out = "found" -> Finish(f[1], None)
                         [] out = "not_found" -> [ret |-> "None", obj |-> None]
                         [] out = "bad_shape" ->
                              [ret |-> ReturnOnException(ExceptionOf(out)),
                               obj |-> None])
  /\ UNCHANGED <<last_failure_time, nspd_now, upstream, nspd_calls>>

\* The search request fails with one of the four named exceptions:
\* _handle_failure runs and None is returned.
SearchFailure(t, out) ==
  /\ UNCHANGED <<crm_all, geo_vars, ops_vars>>
  /\ nspd_pc[t] = "search"
  /\ upstream = "any"
  /\ failure_count' = CountAfterFailure
  /\ circuit_state' = StateAfterFailure
  /\ last_failure_time' = TimeAfterFailure
  /\ consec_fails' = consec_fails + 1
  /\ recorded' = Record("failure")
  /\ nspd_pc' = [nspd_pc EXCEPT ![t] = "idle"]
  /\ nspd_trial' = [nspd_trial EXCEPT ![t] = FALSE]
  /\ ExceptClause(ExceptionOf(out)) = "named"
  /\ nev' = NspdEvent("search_resp", t, out, FALSE, "failure",
                      ReturnOnException(ExceptionOf(out)))
  /\ UNCHANGED <<nspd_now, nspd_feature, upstream, nspd_calls, outage_sent>>

\* The search request fails with any other exception: `except Exception`
\* returns None and no handler runs.
SearchError(t, out) ==
  /\ UNCHANGED <<crm_all, geo_vars, ops_vars>>
  /\ nspd_pc[t] = "search"
  /\ upstream = "any"
  /\ nspd_pc' = [nspd_pc EXCEPT ![t] = "idle"]
  /\ nspd_trial' = [nspd_trial EXCEPT ![t] = FALSE]
  /\ ExceptClause(ExceptionOf(out)) # "named"
  /\ nev' = NspdEvent("search_resp", t, out, FALSE, "-",
                      ReturnOnException(ExceptionOf(out)))
  /\ UNCHANGED <<circuit_state, failure_count, last_failure_time, nspd_now,
                 nspd_feature, upstream, nspd_calls, consec_fails, recorded,
                 outage_sent>>

\* The tab-group-data request answers: _get_related_objects returns the list
\* or None and get_object_info goes on to the geometry and the validation; an
\* exception that _get_related_objects does not catch reaches the except
\* clauses of get_object_info.
RelatedRespond(t, out) ==
  /\ UNCHANGED <<crm_all, geo_vars, ops_vars>>
  /\ nspd_pc[t] = "related"
  /\ nspd_pc' = [nspd_pc EXCEPT ![t] = "idle"]
  /\ nspd_feature' = [nspd_feature EXCEPT ![t] = None]
  /\ nev' = NspdReturn("related_resp", t, out, "-", nspd_feature[t],
                       IF RelatedEscapes(out)
                       THEN [ret |-> ReturnOnException(RelatedRaises(out)[1]),
                             obj |-> None]
                       ELSE Finish(nspd_feature[t][1], RelatedNumbers(out)))
  /\ UNCHANGED <<circuit_state, failure_count, last_failure_time, nspd_now,
                 upstream, nspd_trial, nspd_calls, consec_fails, recorded, outage_sent>>

\* The geoportal client's clock advances: a bounded number of times, and
\* beyond that while a healthy upstream waits for the cooldown to end.
NspdTick ==
  /\ UNCHANGED <<crm_all, geo_vars, ops_vars>>
  /\ \/ nspd_now + NspdTimeStep <= NspdMaxTicks * NspdTimeStep
     \/ upstream = "healthy" /\ circuit_state = "OPEN" /\ ~CooldownElapsed
  /\ nspd_now' = nspd_now + NspdTimeStep
  /\ nev' = NspdEvent("tick", 0, "-", FALSE, "-", "-")
  /\ UNCHANGED <<circuit_state, failure_count, last_failure_time, nspd_pc,
                 nspd_feature, upstream, nspd_trial, nspd_calls, consec_fails,
                 recorded, outage_sent>>

\* The outage ends: from now on every search request succeeds.
Recover ==
  /\ UNCHANGED <<crm_all, geo_vars, ops_vars>>
  /\ upstream = "any"
  /\ upstream' = "healthy"
  /\ nev' = NspdEvent("recover", 0, "-", FALSE, "-", "-")
  /\ UNCHANGED <<circuit_state, failure_count, last_failure_time, nspd_now, nspd_pc,
                 nspd_feature, nspd_trial, nspd_calls, consec_fails, recorded,
                 outage_sent>>

\* NspdClient.__init__
InitNspd ==
  /\ circuit_state = "CLOSED"
  /\ failure_count = 0
  /\ last_failure_time = None
  /\ nspd_now = 0
  /\ nspd_pc = [t \in Tasks |-> "idle"]
  /\ nspd_feature = [t \in Tasks |-> None]
  /\ upstream = "any"
  /\ nspd_trial = [t \in Tasks |-> FALSE]
  /\ nspd_calls = 0
  /\ consec_fails = 0
  /\ recorded = <<"-", "-", "-">>
  /\ outage_sent = None
  /\ nev = [kind |-> "init", task |-> 0, out |-> "-", before |-> "CLOSED",
            count_before |-> 0, lft_before |-> None, at |-> 0,
            sent_before |-> None, trial |-> FALSE,
            sent |-> FALSE, handler |-> "-", ret |-> "-",
            feature |-> None, obj |-> None]

NextNspd ==
  \/ \E t \in Tasks : GetObjectInfo(t)
  \/ \E t \in Tasks, out \in SearchSuccesses, f \in PlainFeatures :
       SearchSuccess(t, out, f)
  \/ \E t \in Tasks, out \in SearchFailures : SearchFailure(t, out)
  \/ \E t \in Tasks, out \in SearchErrors : SearchError(t, out)
  \/ \E t \in Tasks, out \in RelatedOutcomes : RelatedRespond(t, out)
  \/ NspdTick

(* ------------------------------ geometry ------------------------------- *)

\* Points [lon, lat] a ring may be made of.
Vertices == {<<0, 0>>, <<0, 2>>, <<2, 0>>, <<1, 1>>, <<2, 3>>, <<-1, 4>>}
\* Rings of at most MaxRingLen points, closed or not, the empty ring included.
Rings == UNION {[1..n -> Vertices] : n \in 0..MaxRingLen}
\* Inner rings (holes).
Holes == {<<(<<1, 1>>), (<<2, 3>>), (<<-1, 4>>), (<<1, 1>>)>>,
          <<(<<0, 2>>), (<<0, 2>>)>>}
\* Polygons: an outer ring, then no hole or one hole.
Polygons == {<<r>> : r \in Rings} \cup {<<r, h>> : r \in Rings, h \in Holes}

\* Python's sum(point[k] for point in ring), k = 1 for lon and 2 for lat.
RECURSIVE SumOf(_, _)
SumOf(ring, k) ==
  IF ring = <<>> THEN 0 ELSE Head(ring)[k] + SumOf(Tail(ring), k)

\* Python's ring[:-1]
AllButLast(ring) == IF ring = <<>> THEN <<>> ELSE SubSeq(ring, 1, Len(ring) - 1)

\* The quotient a / b of Python's true division, kept as a fraction.
Div(a, b) == [num |-> a, den |-> b]

\* The centroid as the average of all the vertices of the outer ring.
CalculatePolygonCentroidAllVertices(p) ==
  LET outer_ring == p[1]
      num_points == Len(outer_ring)
  IN IF num_points < 1 THEN <<>>
     ELSE <<Div(SumOf(outer_ring, 1), num_points),
            Div(SumOf(outer_ring, 2), num_points)>>

\* NspdClient._calculate_polygon_centroid
CalculatePolygonCentroid(p) ==
  LET outer_ring == p[1]
      num_points == Len(outer_ring) - 1
  IN IF num_points < 1 THEN <<>>
     ELSE <<Div(SumOf(AllButLast(outer_ring), 1), num_points),
            Div(SumOf(AllButLast(outer_ring), 2), num_points)>>

\* _calculate_polygon_centroid is applied to the polygon.
CalculateCentroid ==
  /\ UNCHANGED <<crm_all, nspd_all, ops_vars>>
  /\ centroid = None
  /\ centroid' = Some(CalculatePolygonCentroid(polygon_wgs84))
  /\ UNCHANGED <<polygon_wgs84, geometry, ordered>>

\* Geometries with coordinates that get_object_info transforms: a point or a
\* polygon with a non-empty list of rings.
OrderedGeometries ==
  {[type |-> "Point", coordinates |-> v] : v \in Vertices} \cup
  {[type |-> "Polygon", coordinates |-> q] : q \in Polygons}

\* No geometry: the value of `geometry` before any answer is read.
NoGeometry == [type |-> "absent", coordinates |-> <<>>]

\* A reverse that leaves the list as it is.
PyReverseNothing(l) == l

\* Python's list.reverse()
PyReverse(l) == [i \in 1..Len(l) |-> l[Len(l) + 1 - i]]

\* [[[point[1], point[0]] for point in ring] for ring in coords]
SwapVertices(coords) ==
  [r \in 1..Len(coords) |->
     [i \in 1..Len(coords[r]) |-> <<coords[r][i][2], coords[r][i][1]>>]]

\* result_data["coordinates_wgs84"] once coords_order has been applied.
CoordsInOrder(g, order) ==
  IF order = "lat,lon"
  THEN CASE g.type = "Point" -> PyReverse(g.coordinates)
         [] g.type = "Polygon" -> SwapVertices(g.coordinates)
         [] OTHER -> g.coordinates
  ELSE g.coordinates

\* result_data["centroid_wgs84"] once coords_order has been applied: None for
\* a point; `if centroid: centroid.reverse()` skips the empty list.
CentroidInOrder(g, order) ==
  IF g.type # "Polygon" THEN None
  ELSE LET c == CalculatePolygonCentroid(g.coordinates)
       IN IF order = "lat,lon" /\ c # <<>> THEN Some(PyReverse(c)) ELSE Some(c)

\* get_object_info computes the coordinates and the centroid of the geometry
\* in the order asked for.
ApplyCoordsOrder(order) ==
  /\ UNCHANGED <<crm_all, nspd_all, ops_vars>>
  /\ ordered = None
  /\ ordered' = Some([order |-> order,
                      coordinates_wgs84 |-> CoordsInOrder(geometry, order),
                      centroid_wgs84 |-> CentroidInOrder(geometry, order)])
  /\ UNCHANGED <<polygon_wgs84, centroid, geometry>>

\* No polygon is under consideration.
InitGeometry ==
  /\ polygon_wgs84 = <<>>
  /\ centroid = None
  /\ geometry = NoGeometry
  /\ ordered = None

(* ------------------------- employee enrichment ------------------------- *)

\* The "id" and "name" values of the employee dicts of an answer.
EmployeeIds == {"5", "6"}
EmployeeNames == {"X", "Y"}

\* An employee dict of an answer. A key that is absent is None. A full record
\* has "name"; a stub has none. Full records are drawn without nested values,
\* so a dict copied by reference and one copied by value read the same.
Employee(id, name, boss) ==
  [contentType |-> "Employee", id |-> id, name |-> name, boss |-> boss]

FullRecords == {Employee(i, Some(n), None) : i \in EmployeeIds, n \in EmployeeNames}
LeafStubs == {Employee(i, None, None) : i \in EmployeeIds}
LeafEmployees == FullRecords \cup LeafStubs
\* A stub that holds another employee under a further key.
NestingStubs == {Employee(i, None, Some(l)) : i \in EmployeeIds, l \in LeafEmployees}
Executors == LeafEmployees \cup NestingStubs

\* A deal: the list of its executors and, possibly, its manager.
RawDeals ==
  [contentType : {"Deal"},
   Category1000076CustomFieldViezdIspolnitel :
     UNION {[1..n -> Executors] : n \in 0..MaxExecutors},
   manager : {None} \cup {Some(l) : l \in LeafEmployees}]

Responses == UNION {[1..n -> RawDeals] : n \in 1..MaxDeals}

EmptyCache == [i \in EmployeeIds |-> None]

\* dict.update: every key of other is written over d, the other keys stay.
DictUpdate(d, other) ==
  [contentType |-> other.contentType,
   id |-> other.id,
   name |-> IF other.name # None THEN other.name ELSE d.name,
   boss |-> IF other.boss # None THEN other.boss ELSE d.boss]

\* _recursively_build_cache on an employee dict: the node, then its values.
RECURSIVE RecursivelyBuildCache(_, _)
RecursivelyBuildCache(e, cache) ==
  LET c1 == IF e.contentType = "Employee" /\ e.name # None
            THEN [cache EXCEPT ![e.id] = Some(e)]
            ELSE cache
  IN IF e.boss = None THEN c1 ELSE RecursivelyBuildCache(e.boss[1], c1)

\* _recursively_build_cache on a list.
RECURSIVE BuildCacheOfList(_, _)
BuildCacheOfList(list, cache) ==
  IF list = <<>> THEN cache
  ELSE BuildCacheOfList(Tail(list), RecursivelyBuildCache(Head(list), cache))

\* _recursively_build_cache on a deal: its values in the order of its keys.
BuildCacheOfDeal(deal, cache) ==
  LET c1 == BuildCacheOfList(deal.Category1000076CustomFieldViezdIspolnitel, cache)
  IN IF deal.manager = None THEN c1
     ELSE RecursivelyBuildCache(deal.manager[1], c1)

\* The first loop of get_deals_for_date_range over the deals.
RECURSIVE BuildCacheOfDeals(_, _)
BuildCacheOfDeals(ds, cache) ==
  IF ds = <<>> THEN cache
  ELSE BuildCacheOfDeals(Tail(ds), BuildCacheOfDeal(Head(ds), cache))

\* _recursively_enrich_employees on an employee dict: a stub found in the
\* cache is updated and not entered; any other dict is entered.
RECURSIVE RecursivelyEnrichEmployees(_, _)
RecursivelyEnrichEmployees(e, cache) ==
  IF e.contentType = "Employee" /\ e.name = None /\ cache[e.id] # None
  THEN DictUpdate(e, cache[e.id][1])
  ELSE IF e.boss = None THEN e
       ELSE [e EXCEPT !.boss = Some(RecursivelyEnrichEmployees(e.boss[1], cache))]

\* _recursively_enrich_employees on a deal.
EnrichDeal(deal, cache) ==
  [deal EXCEPT
     !.Category1000076CustomFieldViezdIspolnitel =
        [j \in DOMAIN @ |-> RecursivelyEnrichEmployees(@[j], cache)],
     !.manager = IF @ = None THEN None
                 ELSE Some(RecursivelyEnrichEmployees(@[1], cache))]

\* The enrichment of get_deals_for_date_range: the cache of the whole answer,
\* then the enrichment of every deal.
EnrichDeals(ds) ==
  LET executors_cache == BuildCacheOfDeals(ds, EmptyCache)
  IN [i \in DOMAIN ds |-> EnrichDeal(ds[i], executors_cache)]

\* The first pass of get_deals over one list of executors.
RECURSIVE CacheExecutors(_, _)
CacheExecutors(list, cache) ==
  IF list = <<>> THEN cache
  ELSE CacheExecutors(Tail(list),
                      IF Head(list).name # None
                      THEN [cache EXCEPT ![Head(list).id] = Some(Head(list))]
                      ELSE cache)

\* The first pass of get_deals: only the executors of each deal are read.
RECURSIVE ExecutorsCache(_, _)
ExecutorsCache(ds, cache) ==
  IF ds = <<>> THEN cache
  ELSE ExecutorsCache(Tail(ds),
         CacheExecutors(Head(ds).Category1000076CustomFieldViezdIspolnitel, cache))

\* The second pass of get_deals over one list of executors: a stub found in
\* the cache is replaced by the cached dict, every other item is kept.
UpdatedExecutorsList(list, cache) ==
  [j \in DOMAIN list |->
     IF list[j].name = None /\ cache[list[j].id] # None
     THEN cache[list[j].id][1]
     ELSE list[j]]

\* The enrichment of get_deals.
UpdateExecutors(ds) ==
  LET executors_cache == ExecutorsCache(ds, EmptyCache)
  IN [i \in DOMAIN ds |->
        [ds[i] EXCEPT !.Category1000076CustomFieldViezdIspolnitel =
                         UpdatedExecutorsList(@, executors_cache)]]

\* The days a date range starts and ends on.
Days == 1..MaxDay

\* What _request gives for the GET of the deals: a body whose "data" is the
\* list of deals, or nothing usable (None, no "data", "data" that is no list).
DealsAnswers == {"data", "none"}

\* What get_deals_for_date_range does: it raises ValueError for a range that
\* ends before it starts, returns None without a usable answer, and the
\* enriched deals otherwise.
DealsForDateRange(start_date, end_date, answer) ==
  IF start_date > end_date THEN [ret |-> "raise", data |-> <<>>]
  ELSE IF answer = "none" THEN [ret |-> "None", data |-> <<>>]
  ELSE [ret |-> "list", data |-> EnrichDeals(response)]

\* get_deals_for_date_range.
GetDealsForDateRange(start_date, end_date, answer) ==
  /\ UNCHANGED <<crm_all, nspd_all, geo_vars, attach_vars, validated, created, performed,
                 bot_vars>>
  /\ deals = None
  /\ deals' = Some([by |-> "get_deals_for_date_range",
                    ret |-> DealsForDateRange(start_date, end_date, answer).ret,
                    data |-> DealsForDateRange(start_date, end_date, answer).data])
  /\ UNCHANGED response

\* get_deals: None without a usable answer, the enriched deals otherwise.
GetDeals(answer) ==
  /\ UNCHANGED <<crm_all, nspd_all, geo_vars, attach_vars, validated, created, performed,
                 bot_vars>>
  /\ deals = None
  /\ deals' = Some([by |-> "get_deals",
                    ret |-> IF answer = "none" THEN "None" ELSE "list",
                    data |-> IF answer = "none" THEN <<>>
                             ELSE UpdateExecutors(response)])
  /\ UNCHANGED response

\* The places of a response tree where an employee dict may stand.
Positions ==
  [deal : 1..MaxDeals, key : {"manager"}, item : {0}, nested : {FALSE}]
    \cup [deal : 1..MaxDeals, key : {"executors"}, item : 1..MaxExecutors,
          nested : BOOLEAN]

\* The employee dict at a place of a tree, None when the tree has no such place.
NodeAt(ds, pos) ==
  IF pos.deal > Len(ds) THEN None
  ELSE IF pos.key = "manager" THEN ds[pos.deal].manager
  ELSE LET list == ds[pos.deal].Category1000076CustomFieldViezdIspolnitel
       IN IF pos.item > Len(list) THEN None
          ELSE IF ~pos.nested THEN Some(list[pos.item])
          ELSE list[pos.item].boss

\* The names of the full records of a tree that carry an id.
FullNames(ds, id) ==
  {NodeAt(ds, pos)[1].name[1] :
     pos \in {q \in Positions : /\ NodeAt(ds, q) # None
                                /\ NodeAt(ds, q)[1].id = id
                                /\ NodeAt(ds, q)[1].name # None}}

\* The stubs of a tree whose id is the id of a full record of the tree.
MatchedStubs(ds) ==
  {pos \in Positions : /\ NodeAt(ds, pos) # None
                       /\ NodeAt(ds, pos)[1].name = None
                       /\ FullNames(ds, NodeAt(ds, pos)[1].id) # {}}

(* --------------------------- file attachment --------------------------- *)

\* The two file fields of a deal that the attach methods write.
FileFields == {"Category1000076CustomFieldViezdDokumentiIFotoSViezda", "attaches"}

\* The ids of the files a field of the deal may hold before the call.
FileIds == {"10", "20"}

\* A str or an int as Python holds it.
PyOfStr(s) == [type |-> "str", str |-> s, int |-> 0]
PyOfInt(n) == [type |-> "int", str |-> "", int |-> n]

\* str(): the decimal text of an int, a str as it is.
Decimal == [n \in {0, 20, 30} |->
              CASE n = 0 -> "0" [] n = 20 -> "20" [] n = 30 -> "30"]
PyStr(x) == IF x.type = "int" THEN Decimal[x.int] ELSE x.str

\* The truth value of a str or an int.
IsTruthy(x) == IF x.type = "int" THEN x.int # 0 ELSE x.str # ""

\* The values an item of file_ids takes.
FileIdItems ==
  {PyOfInt(20), PyOfStr("20"), PyOfStr("30"), PyOfInt(0)}

\* The file_ids argument: one str or int, a list of them, or another type.
FileIdArgs ==
  {[type |-> it.type, items |-> <<it>>] : it \in FileIdItems}
    \cup {[type |-> "list", items |-> l] :
            l \in UNION {[1..n -> FileIdItems] : n \in 0..MaxFileIds}}
    \cup {[type |-> "other", items |-> <<>>]}

\* What the GET of the deal gives get_deal_by_id_model.
FetchOutcomes == {"deal", "none"}
\* What _request gives for the POST of the field: a body whose meta has no
\* errors, one whose meta has errors, one without meta, or None.
PostOutcomes == {"ok", "errors", "no_meta", "none"}

\* [str(fid) for fid in file_ids if fid]
RECURSIVE StrOfTruthy(_)
StrOfTruthy(items) ==
  IF items = <<>> THEN <<>>
  ELSE (IF IsTruthy(Head(items)) THEN <<PyStr(Head(items))>> ELSE <<>>)
         \o StrOfTruthy(Tail(items))

\* [fid for fid in file_ids if fid] on a list of str.
NonEmptyIds(ids) == SelectSeq(ids, LAMBDA fid : fid # "")

Range(f) == {f[i] : i \in DOMAIN f}

\* list(set(ids)): the distinct ids, in any order.
ListsOfSet(ids) ==
  {l \in [1..Cardinality(ids) -> ids] : Range(l) = ids}

\* The lists of ids read from a field of the fetched deal: the files of the
\* field in the order the CRM gives them.
ExistingFileIds(field) == ListsOfSet(deal_files[field])

\* The attach call made: the ids the field held when it was made, the ids read
\* from the fetched deal, the list posted and the value returned.
AttachEvent(by, field, arg, existing, written, ret) ==
  [by |-> by, field |-> field, arg |-> arg, held |-> deal_files[field],
   existing |-> existing, written |-> written, ret |-> ret]

\* The CRM overwrites the field with the list posted.
FilesAfterPost(field, post, written) ==
  IF post = "ok" THEN [deal_files EXCEPT ![field] = Range(written)]
  ELSE deal_files

\* attach_files_to_deal_visit_docs / attach_files_to_deal_main_attachments of
\* temp/exported_files: normalise the ids, fetch the deal, unite the ids of the
\* field with the new ones, post the whole list through
\* _generic_attach_files_to_deal_field.
AttachFilesToDeal(field, arg, fetch, post) ==
  /\ UNCHANGED <<crm_all, nspd_all, geo_vars, enrich_vars, validated, created, performed,
                 bot_vars>>
  /\ attached = None
  /\ LET by == "attach_files_to_deal"
         new_file_ids_str ==
           IF arg.type \in {"str", "int"} THEN <<PyStr(arg.items[1])>>
           ELSE StrOfTruthy(arg.items)
     IN IF arg.type = "other"
        THEN /\ attached' = Some(AttachEvent(by, field, arg, None, None, "False"))
             /\ UNCHANGED deal_files
        ELSE IF new_file_ids_str = <<>>
        THEN /\ attached' = Some(AttachEvent(by, field, arg, None, None, "True"))
             /\ UNCHANGED deal_files
        ELSE IF fetch = "none"
        THEN /\ attached' = Some(AttachEvent(by, field, arg, None, None, "False"))
             /\ UNCHANGED deal_files
        ELSE \E existing_file_ids \in ExistingFileIds(field) :
             \E combined_ids \in
                  ListsOfSet(Range(existing_file_ids) \cup Range(new_file_ids_str)) :
               LET written == NonEmptyIds(combined_ids)
               IN /\ attached' =
                       Some(AttachEvent(by, field, arg, Some(existing_file_ids),
                                        Some(written),
                                        IF post = "none" THEN "False" ELSE "True"))
                  /\ deal_files' = FilesAfterPost(field, post, written)

\* attach_files_to_deal_visit_docs / attach_files_to_deal_main_attachments of
\* crm_service: _generic_attach_files_to_deal_field normalises the ids and
\* posts them as the field.
GenericAttachFilesToDealField(field, arg, post) ==
  /\ UNCHANGED <<crm_all, nspd_all, geo_vars, enrich_vars, validated, created, performed,
                 bot_vars>>
  /\ attached = None
  /\ LET by == "_generic_attach_files_to_deal_field"
         falsy == IF arg.type = "list" THEN arg.items = <<>>
                  ELSE arg.type # "other" /\ ~IsTruthy(arg.items[1])
         current_file_ids_str ==
           IF arg.type \in {"str", "int"} THEN <<PyStr(arg.items[1])>>
           ELSE StrOfTruthy(arg.items)
     IN IF falsy \/ arg.type = "other" \/ current_file_ids_str = <<>>
        THEN /\ attached' = Some(AttachEvent(by, field, arg, None, None, "False"))
             /\ UNCHANGED deal_files
        ELSE /\ attached' =
                  Some(AttachEvent(by, field, arg, None, Some(current_file_ids_str),
                                   CASE post = "none" -> "False"
                                     [] post = "no_meta" -> "raise"
                                     [] OTHER -> "True"))
             /\ deal_files' = FilesAfterPost(field, post, current_file_ids_str)

\* The new file ids of an argument all of whose items are ids.
NewFileIds(arg) == {PyStr(arg.items[i]) : i \in DOMAIN arg.items}
AllItemsAreIds(arg) ==
  /\ arg.type # "other"
  /\ arg.items # <<>>
  /\ \A i \in DOMAIN arg.items : IsTruthy(arg.items[i])

(* ------------------------ concurrent attach calls ---------------------- *)

\* The field of attach_files_to_deal_visit_docs.
VisitDocsField == "Category1000076CustomFieldViezdDokumentiIFotoSViezda"

\* An attach call of a task: where it is ("idle", "fetch": awaiting
\* get_deal_by_id_model, "post": awaiting _request, "done"), its new ids, the
\* ids it posts, the answer to its POST and what it returned.
NoAttachCall == [pc |-> "idle", new |-> {}, combined |-> {}, post |-> "-", ret |-> "-"]

\* new_file_ids_str of an argument.
NewFileIdsStr(arg) ==
  IF arg.type \in {"str", "int"} THEN <<PyStr(arg.items[1])>>
  ELSE StrOfTruthy(arg.items)

\* attach_files_to_deal_visit_docs up to its first suspension: the ids are
\* normalised; an argument of another type returns False and an empty list
\* True; otherwise the deal is fetched.
AttachStart(t, arg) ==
  /\ UNCHANGED <<crm_all, nspd_all, geo_vars, enrich_vars, attach_vars, validated,
                 created, performed, ticket_vars, map_vars, files_vars>>
  /\ attach_calls[t].pc = "idle"
  /\ attach_calls' =
       [attach_calls EXCEPT ![t] =
          IF arg.type = "other" THEN [NoAttachCall EXCEPT !.pc = "done", !.ret = "False"]
          ELSE IF NewFileIdsStr(arg) = <<>>
          THEN [NoAttachCall EXCEPT !.pc = "done", !.ret = "True"]
          ELSE [NoAttachCall EXCEPT !.pc = "fetch", !.new = Range(NewFileIdsStr(arg))]]
  /\ UNCHANGED attach_start

\* get_deal_by_id_model answers: without a deal False is returned; with one,
\* combined_ids = list(set(existing_file_ids + new_file_ids_str)) is built from
\* the ids the field holds now, and _generic_attach_files_to_deal_field posts
\* the non-empty ones as the whole field.
AttachFetched(t, fetch) ==
  /\ UNCHANGED <<crm_all, nspd_all, geo_vars, enrich_vars, attach_vars, validated,
                 created, performed, ticket_vars, map_vars, files_vars>>
  /\ attach_calls[t].pc = "fetch"
  /\ attach_calls' =
       [attach_calls EXCEPT ![t] =
          IF fetch = "none" THEN [@ EXCEPT !.pc = "done", !.ret = "False"]
          ELSE [@ EXCEPT !.pc = "post",
                         !.combined =
                           (deal_files[VisitDocsField] \cup attach_calls[t].new)
                             \ {""}]]
  /\ UNCHANGED attach_start

\* The POST is answered: the CRM has overwritten the field with the list
\* posted when it answers without errors; the method returns False when
\* _request gave None and True otherwise.
AttachPosted(t, post) ==
  /\ UNCHANGED <<crm_all, nspd_all, geo_vars, enrich_vars, validated,
                 created, performed, ticket_vars, map_vars, files_vars>>
  /\ attach_calls[t].pc = "post"
  /\ deal_files' = IF post = "ok"
                   THEN [deal_files EXCEPT ![VisitDocsField] = attach_calls[t].combined]
                   ELSE deal_files
  /\ attach_calls' =
       [attach_calls EXCEPT ![t] =
          [@ EXCEPT !.pc = "done", !.post = post,
                    !.ret = IF post = "none" THEN "False" ELSE "True"]]
  /\ UNCHANGED <<attached, attach_start>>

(* ----------------------------- typed deals ----------------------------- *)

\* The "value" of the visit time of a raw deal: absent, a timestamp, a text
\* that is no timestamp, or a timestamp whose local time is past year 9999.
VisitValues == {"absent", "timestamp", "malformed", "out_of_range"}

\* The raw deals of an answer as Deal.model_validate reads them: "number" is
\* one of the required keys, the executors are Employee dicts.
ModelRawDeals ==
  [contentType : {"Deal"},
   id : {"1", "2"},
   number : {None, Some("5088-2025")},
   visit : VisitValues,
   Category1000076CustomFieldViezdIspolnitel :
     {<<>>, <<Employee("5", None, None)>>, <<Employee("5", Some("X"), None)>>},
   manager : {None, Some(Employee("5", Some("X"), None))}]

ModelResponses == UNION {[1..n -> ModelRawDeals] : n \in 0..MaxDeals}

\* Employee.model_validate: "id" and "name" are required.
EmployeeIsValid(e) == e.name # None

\* What Deal.model_validate does with a raw deal: it returns a Deal, raises
\* ValidationError (a required key is missing, the visit time is no timestamp,
\* an executor has no name), or lets the OverflowError of astimezone in
\* convert_to_local_timezone through.
ValidationOutcome(d) ==
  IF d.visit = "out_of_range" THEN "OverflowError"
  ELSE IF \/ d.number = None
          \/ d.visit = "malformed"
          \/ \E j \in DOMAIN d.Category1000076CustomFieldViezdIspolnitel :
               ~EmployeeIsValid(d.Category1000076CustomFieldViezdIspolnitel[j])
       THEN "ValidationError"
       ELSE "Deal"

\* The Deal that Deal.model_validate returns for a raw deal that is valid.
DealModel(d) ==
  [id |-> d.id,
   number |-> d.number[1],
   visit_datetime |-> IF d.visit = "absent" THEN None ELSE Some("local time"),
   executors |-> [j \in DOMAIN d.Category1000076CustomFieldViezdIspolnitel |->
                    [id |-> d.Category1000076CustomFieldViezdIspolnitel[j].id,
                     name |-> d.Category1000076CustomFieldViezdIspolnitel[j].name[1]]]]

\* [Deal.model_validate(deal_data) for deal_data in raw_deals] inside the try:
\* the first raw deal that is not valid ends the comprehension.
RECURSIVE ValidateAll(_)
ValidateAll(raw_deals) ==
  IF raw_deals = <<>> THEN [ret |-> "list", models |-> <<>>]
  ELSE LET outcome == ValidationOutcome(Head(raw_deals))
           rest == ValidateAll(Tail(raw_deals))
       IN CASE outcome = "ValidationError" -> [ret |-> "None", models |-> <<>>]
            [] outcome = "OverflowError" -> [ret |-> "raise", models |-> <<>>]
            [] rest.ret # "list" -> rest
            [] OTHER -> [ret |-> "list",
                         models |-> <<DealModel(Head(raw_deals))>> \o rest.models]

\* get_deals_for_date_range_model: what get_deals_for_date_range raises is not
\* caught, its None is returned, its deals are validated one by one.
GetDealsForDateRangeModel(start_date, end_date, answer) ==
  /\ UNCHANGED <<crm_all, nspd_all, geo_vars, enrich_vars, attach_vars, created, performed,
                 bot_vars>>
  /\ validated = None
  /\ LET raw_deals == DealsForDateRange(start_date, end_date, answer)
         result == IF raw_deals.ret = "list" THEN ValidateAll(raw_deals.data)
                   ELSE [ret |-> raw_deals.ret, models |-> <<>>]
     IN validated' = Some([start_date |-> start_date, end_date |-> end_date,
                           raw_deals |-> raw_deals,
                           ret |-> result.ret, models |-> result.models])

(* ---------------------------- deal creation ---------------------------- *)

\* timezone(timedelta(hours=2)) and timezone.utc, as minutes east of UTC.
user_local_timezone == 120
utc == 0

\* A datetime: its wall-clock time in minutes after a midnight, and its
\* tzinfo: None ("naive"), a tzinfo whose utcoffset() is None ("no_offset"),
\* or a fixed offset in minutes east of UTC ("aware").
Naive(wall) == [wall |-> wall, tz |-> "naive", offset |-> 0]
NoOffset(wall) == [wall |-> wall, tz |-> "no_offset", offset |-> 0]
Aware(wall, offset) == [wall |-> wall, tz |-> "aware", offset |-> offset]

Walls == {k * WallStep : k \in 0..MaxWallSteps}
\* The offsets an aware input carries.
Offsets == {-180, 0, 120, 330}
VisitDatetimes ==
  {Naive(w) : w \in Walls} \cup {NoOffset(w) : w \in Walls}
    \cup {Aware(w, o) : w \in Walls, o \in Offsets}

\* A replace that moved the wall clock as astimezone does from UTC.
ReplaceTzinfoShifting(dt, tz) == Aware(dt.wall + tz, tz)

\* datetime.replace(tzinfo=tz): the wall-clock time is kept.
ReplaceTzinfo(dt, tz) == Aware(dt.wall, tz)

\* datetime.astimezone(tz) of an aware datetime: the same instant, on the
\* wall clock of tz.
Astimezone(dt, tz) == Aware(dt.wall - dt.offset + tz, tz)

\* The "+HH:MM" suffix of isoformat().
TwoDigits(n) ==
  CASE n = 0 -> "00" [] n = 2 -> "02" [] n = 3 -> "03" [] n = 5 -> "05" [] n = 30 -> "30"
OffsetSuffix(offset) ==
  LET a == IF offset < 0 THEN -offset ELSE offset
  IN [sign |-> IF offset < 0 THEN "-" ELSE "+",
      hh |-> TwoDigits(a \div 60), mm |-> TwoDigits(a % 60)]

\* datetime.isoformat() of an aware datetime: the wall-clock time followed by
\* the offset.
Isoformat(dt) == [wall |-> dt.wall, suffix |-> OffsetSuffix(dt.offset)]

\* The "value" create_deal computes for the visit time.
IsoValueForApi(ticket_visit_datetime) ==
  LET aware_local_dt ==
        IF ticket_visit_datetime.tz \in {"naive", "no_offset"}
        THEN ReplaceTzinfo(ticket_visit_datetime, user_local_timezone)
        ELSE Astimezone(ticket_visit_datetime, user_local_timezone)
      utc_dt == Astimezone(aware_local_dt, utc)
  IN Isoformat(utc_dt)

\* What _request gives for the POST of the new deal.
CreateOutcomes == {"deal", "unexpected", "none"}

\* create_deal: the payload gets the visit time when one is given, is posted,
\* and the created deal is returned when the answer holds one.
CreateDeal(ticket_visit_datetime, out) ==
  /\ UNCHANGED <<crm_all, nspd_all, geo_vars, enrich_vars, attach_vars, validated,
                 performed, bot_vars>>
  /\ created = None
  /\ created' =
       Some([ticket_visit_datetime |-> ticket_visit_datetime,
             visit_value |-> IF ticket_visit_datetime = None THEN None
                             ELSE Some(IsoValueForApi(ticket_visit_datetime[1])),
             ret |-> IF out = "deal" THEN "created_deal" ELSE "None"])

(* ----------------------- other public operations ----------------------- *)

\* What _request gives an operation that reads "data" of the answer: a body
\* with "data" of the expected type, another body, or None.
DataAnswers == {"data", "unexpected", "none"}

\* get_deal_by_id: the enriched deal of the answer, or None.
GetDealById(answer) ==
  /\ UNCHANGED <<crm_all, nspd_all, geo_vars, enrich_vars, attach_vars, validated,
                 created, bot_vars>>
  /\ performed = None
  /\ performed' = Some([op |-> "get_deal_by_id",
                        ret |-> IF answer = "data" THEN "deal_data" ELSE "None"])

\* update_deal: None without update data, else the updated deal of the
\* answer, or None.
UpdateDeal(has_update_data, answer) ==
  /\ UNCHANGED <<crm_all, nspd_all, geo_vars, enrich_vars, attach_vars, validated,
                 created, bot_vars>>
  /\ performed = None
  /\ performed' = Some([op |-> "update_deal",
                        ret |-> IF has_update_data /\ answer = "data"
                                THEN "updated_deal" ELSE "None"])

\* What _request gives upload_file_from_bytes: a body whose "data" is a
\* non-empty list, a File object, another body, or None.
UploadAnswers == {"data", "file", "unexpected", "none"}

\* upload_file_from_bytes: the file info of the answer, or None.
UploadFileFromBytes(answer) ==
  /\ UNCHANGED <<crm_all, nspd_all, geo_vars, enrich_vars, attach_vars, validated,
                 created, bot_vars>>
  /\ performed = None
  /\ performed' = Some([op |-> "upload_file_from_bytes",
                        ret |-> CASE answer = "data" -> "uploaded_file_info"
                                  [] answer = "file" -> "response_json"
                                  [] OTHER -> "None"])

(* --------------------------- ticket creation --------------------------- *)

\* The deals kept in the FSM data, each by the day of its visit_datetime
\* (None when the deal has none).
PeriodDeals == UNION {[1..n -> {None} \cup {Some(d) : d \in Days}] : n \in 0..MaxPeriodDeals}

NoFsmData == [deals_on_period |-> <<>>, visit_date |-> None]
NoTicketEvent == [handler |-> "-", target_date |-> 0, count |-> 0, limit |-> 0,
                  limit_message |-> FALSE]

\* The settings and overrides the database may hold.
DailyLimits == 0..MaxLimit
LimitSettings ==
  [default_daily_limit : DailyLimits \ {0},
   override : [Days -> {None} \cup {Some(l) : l \in DailyLimits}]]

\* crud.get_actual_limit_for_date: the override of the date when there is
\* one, else the default.
GetActualLimitForDate(target_date) ==
  IF limits.override[target_date] # None THEN limits.override[target_date][1]
  ELSE limits.default_daily_limit

\* len(deals_on_date_dicts): the deals of the FSM data whose visit is on the date.
CountOnDate(all_deals_dicts, target_date) ==
  Cardinality({i \in DOMAIN all_deals_dicts : all_deals_dicts[i] = Some(target_date)})

\* start_add_ticket: the deals of the coming days are loaded and kept, the
\* date keyboard is shown and the FSM waits for a date; on an error the FSM
\* is cleared.
StartAddTicket(deals_for_period, failed) ==
  /\ UNCHANGED <<crm_all, nspd_all, geo_vars, enrich_vars, attach_vars, validated,
                 created, performed, map_vars, race_vars, files_vars>>
  /\ fsm_state = "none"
  /\ IF failed
     THEN /\ fsm_state' = "none"
          /\ fsm_data' = NoFsmData
     ELSE /\ fsm_state' = "waiting_for_visit_date"
          /\ fsm_data' = [fsm_data EXCEPT !.deals_on_period = deals_for_period]
  /\ tev' = [NoTicketEvent EXCEPT !.handler = "start_add_ticket"]
  /\ UNCHANGED limits

\* process_custom_date_request: the user asks to type a date.
ProcessCustomDateRequest ==
  /\ UNCHANGED <<crm_all, nspd_all, geo_vars, enrich_vars, attach_vars, validated,
                 created, performed, map_vars, race_vars, files_vars>>
  /\ fsm_state = "waiting_for_visit_date"
  /\ fsm_state' = "waiting_for_custom_date_input"
  /\ tev' = [NoTicketEvent EXCEPT !.handler = "process_custom_date_request"]
  /\ UNCHANGED <<fsm_data, limits>>

\* process_visit_date: the deals of the chosen date are counted against the
\* limit of the date; when the limit is reached the message about it is
\* shown; then, in either case, the date is stored, the time keyboard is shown
\* and the FSM waits for a time.
ProcessVisitDate(target_date) ==
  /\ UNCHANGED <<crm_all, nspd_all, geo_vars, enrich_vars, attach_vars, validated,
                 created, performed, map_vars, race_vars, files_vars>>
  /\ fsm_state = "waiting_for_visit_date"
  /\ LET limit == GetActualLimitForDate(target_date)
         count == CountOnDate(fsm_data.deals_on_period, target_date)
     IN tev' = [handler |-> "process_visit_date", target_date |-> target_date,
                count |-> count, limit |-> limit, limit_message |-> count >= limit]
  /\ fsm_data' = [fsm_data EXCEPT !.visit_date = Some(target_date)]
  /\ fsm_state' = "waiting_for_visit_time"
  /\ UNCHANGED limits

(* ----------------------------- adding files ---------------------------- *)

\* A process_file task: "idle", "download" (awaiting bot.download) or
\* "upload" (awaiting upload_file_from_bytes).
NoFileTask == [pc |-> "idle"]

\* complete_add_files: "idle", "attaching" (awaiting
\* attach_files_to_deal_visit_docs) or "done"; the uploaded_file_ids it read.
NoComplete == [pc |-> "idle", uploaded_file_ids |-> <<>>, success |-> "-"]

\* What a message holds: a file within the size limit, one above it, or none.
MessageFiles == {"file", "too_big", "no_file_id"}
\* What bot.download does.
DownloadOutcomes == {"ok", "raise"}
\* What upload_file_from_bytes returns: the file info, info without an id, None.
UploadOutcomes == {"info", "no_id", "none"}
\* What attach_files_to_deal_visit_docs does.
AttachResults == {"True", "False", "raise"}

\* The id the CRM gives to the next upload.
NextCrmFileId == Cardinality(files_uploaded) + 1

\* data.get("uploaded_file_ids", [])
UploadedFileIds(data) == IF data = None THEN <<>> ELSE data[1]

\* start_add_files: the FSM waits for files and the list of ids is empty.
StartAddFiles ==
  /\ UNCHANGED <<crm_all, nspd_all, geo_vars, enrich_vars, attach_vars, validated,
                 created, performed, ticket_vars, map_vars, race_vars>>
  /\ files_state = "none"
  /\ files_complete.pc = "idle"
  /\ files_state' = "waiting_for_files"
  /\ files_data' = Some(<<>>)
  /\ UNCHANGED <<files_tasks, files_uploaded, files_complete>>

\* process_file up to its first suspension after the checks: a message
\* without a file or with one above the limit is answered and dropped,
\* otherwise the file is downloaded.
ProcessFile(t, file) ==
  /\ UNCHANGED <<crm_all, nspd_all, geo_vars, enrich_vars, attach_vars, validated,
                 created, performed, ticket_vars, map_vars, race_vars>>
  /\ files_state = "waiting_for_files"
  /\ files_tasks[t].pc = "idle"
  /\ NextCrmFileId + Cardinality({u \in Tasks : files_tasks[u].pc # "idle"}) <= MaxFiles
  /\ files_tasks' = [files_tasks EXCEPT ![t].pc = IF file = "file" THEN "download"
                                                  ELSE "idle"]
  /\ UNCHANGED <<files_state, files_data, files_uploaded, files_complete>>

\* bot.download returns or raises: the file is uploaded to the CRM, or the
\* handler returns.
FileDownloaded(t, out) ==
  /\ UNCHANGED <<crm_all, nspd_all, geo_vars, enrich_vars, attach_vars, validated,
                 created, performed, ticket_vars, map_vars, race_vars>>
  /\ files_tasks[t].pc = "download"
  /\ files_tasks' = [files_tasks EXCEPT ![t].pc = IF out = "ok" THEN "upload" ELSE "idle"]
  /\ UNCHANGED <<files_state, files_data, files_uploaded, files_complete>>

\* upload_file_from_bytes returns: with the info of the file its id is
\* appended to uploaded_file_ids of the FSM data (get_data, append,
\* update_data: the storage of Dispatcher() does not suspend in between);
\* otherwise the exception raised is caught.
FileUploaded(t, out) ==
  /\ UNCHANGED <<crm_all, nspd_all, geo_vars, enrich_vars, attach_vars, validated,
                 created, performed, ticket_vars, map_vars, race_vars>>
  /\ files_tasks[t].pc = "upload"
  /\ files_tasks' = [files_tasks EXCEPT ![t].pc = "idle"]
  /\ IF out = "info"
     THEN /\ files_data' = Some(Append(UploadedFileIds(files_data), NextCrmFileId))
          /\ files_uploaded' = files_uploaded \cup
               {[id |-> NextCrmFileId, state |-> files_state,
                 complete |-> files_complete.pc]}
     ELSE UNCHANGED <<files_data, files_uploaded>>
  /\ UNCHANGED <<files_state, files_complete>>

\* complete_add_files up to its first suspension after get_data: without ids
\* the FSM is cleared; with ids attach_files_to_deal_visit_docs is called,
\* which normalises the list it was given before it suspends.
CompleteAddFiles ==
  /\ UNCHANGED <<crm_all, nspd_all, geo_vars, enrich_vars, attach_vars, validated,
                 created, performed, ticket_vars, map_vars, race_vars>>
  /\ files_state = "waiting_for_files"
  /\ files_complete.pc = "idle"
  /\ LET uploaded_file_ids == UploadedFileIds(files_data)
     IN IF uploaded_file_ids = <<>>
        THEN /\ files_complete' = [NoComplete EXCEPT !.pc = "done"]
             /\ files_state' = "none"
             /\ files_data' = None
        ELSE /\ files_complete' = [NoComplete EXCEPT !.pc = "attaching",
                                     !.uploaded_file_ids = uploaded_file_ids]
             /\ UNCHANGED <<files_state, files_data>>
  /\ UNCHANGED <<files_tasks, files_uploaded>>

\* attach_files_to_deal_visit_docs returns or raises: the user is told, and
\* `finally` clears the FSM.
FilesAttached(success) ==
  /\ UNCHANGED <<crm_all, nspd_all, geo_vars, enrich_vars, attach_vars, validated,
                 created, performed, ticket_vars, map_vars, race_vars>>
  /\ files_complete.pc = "attaching"
  /\ files_complete' = [files_complete EXCEPT !.pc = "done", !.success = success]
  /\ files_state' = "none"
  /\ files_data' = None
  /\ UNCHANGED <<files_tasks, files_uploaded>>

(* --------------------------- map-data endpoint ------------------------- *)

\* The tokens a request may name.
MapTokens == {"a", "b"}

\* deals_data_json of a row: the JSON text of a list of deals, or a text that
\* is no JSON.
DealsDataJson == {"deals", "corrupt"}

NoMapEvent == [token |-> "-", status |-> 0, body |-> "-", at |-> 0]

\* What the database driver returns for a DateTime(timezone=True) column: a
\* naive datetime on the UTC wall clock, or an aware datetime in UTC.
Drivers == {"naive", "aware"}
ColumnValue(driver, instant) ==
  IF driver = "naive" THEN Naive(instant) ELSE Aware(instant, utc)

\* The minutes after the epoch of an aware datetime.
Timestamp(dt) == dt.wall - dt.offset

\* A test that finds no row expired.
IsExpiredNever(expires_at) == FALSE

\* The test of get_valid_map_request_by_token on a row that was found:
\* expires_at.replace(tzinfo=timezone.utc) < datetime.now(timezone.utc).
IsExpired(expires_at) == Timestamp(ReplaceTzinfo(expires_at, utc)) < map_now

\* crud.create_map_request, called by the bot: a row with a new token that
\* expires expires_in_minutes from now.
CreateMapRequest(token, deals_data_json, expires_in_minutes, driver) ==
  /\ UNCHANGED <<crm_all, nspd_all, geo_vars, enrich_vars, attach_vars, validated,
                 created, performed, ticket_vars, race_vars, files_vars>>
  /\ map_requests[token] = None
  /\ map_requests' = [map_requests EXCEPT ![token] =
                        Some([expires_at |-> ColumnValue(driver, map_now + expires_in_minutes),
                              deals_data_json |-> deals_data_json])]
  /\ mev' = NoMapEvent
  /\ UNCHANGED <<map_now, refused>>

\* get_valid_map_request_by_token: the row of the token when there is one
\* and it has not expired, else None.
GetValidMapRequestByToken(token) ==
  IF map_requests[token] = None THEN None
  ELSE IF IsExpired(map_requests[token][1].expires_at) THEN None
  ELSE map_requests[token]

\* get_map_data_by_token: 404 without a valid row, the deals of the row
\* otherwise, 500 when the text of the row is no JSON.
GetMapDataByToken(token) ==
  /\ UNCHANGED <<crm_all, nspd_all, geo_vars, enrich_vars, attach_vars, validated,
                 created, performed, ticket_vars, race_vars, files_vars>>
  /\ LET map_request == GetValidMapRequestByToken(token)
     IN /\ mev' = [token |-> token, at |-> map_now,
                   status |-> IF map_request = None THEN 404
                              ELSE IF map_request[1].deals_data_json = "corrupt"
                              THEN 500 ELSE 200,
                   body |-> IF map_request = None THEN "detail"
                            ELSE IF map_request[1].deals_data_json = "corrupt"
                            THEN "detail" ELSE "deals_data"]
        /\ refused' = IF map_request = None /\ map_requests[token] # None
                      THEN refused \cup {token} ELSE refused
  /\ UNCHANGED <<map_requests, map_now>>

\* A minute passes on the clock of the map backend.
MapTick ==
  /\ UNCHANGED <<crm_all, nspd_all, geo_vars, enrich_vars, attach_vars, validated,
                 created, performed, ticket_vars, race_vars, files_vars>>
  /\ map_now < MaxMapTicks
  /\ map_now' = map_now + 1
  /\ mev' = NoMapEvent
  /\ UNCHANGED <<map_requests, refused>>

(* --------------------------- specifications ---------------------------- *)

\* No conversation is going on; the limits are the defaults.
InitTicket ==
  /\ fsm_state = "none"
  /\ fsm_data = NoFsmData
  /\ limits = [default_daily_limit |-> 1, override |-> [d \in Days |-> None]]
  /\ tev = NoTicketEvent

\* No map request has been created.
InitMap ==
  /\ map_requests = [k \in MapTokens |-> None]
  /\ map_now = 0
  /\ refused = {}
  /\ mev = NoMapEvent

\* No attach call is running.
InitRace ==
  /\ attach_calls = [t \in Tasks |-> NoAttachCall]
  /\ attach_start = {}

\* No add-files conversation is going on.
InitFiles ==
  /\ files_state = "none"
  /\ files_data = None
  /\ files_tasks = [t \in Tasks |-> NoFileTask]
  /\ files_uploaded = {}
  /\ files_complete = NoComplete

\* No CRM answer is under consideration.
InitEnrich ==
  /\ response = <<>>
  /\ deals = None

\* No attach call is under consideration.
InitAttach ==
  /\ deal_files = [f \in FileFields |-> {}]
  /\ attached = None

InitOps ==
  /\ InitEnrich
  /\ InitAttach
  /\ validated = None
  /\ created = None
  /\ performed = None
  /\ InitTicket
  /\ InitMap
  /\ InitRace
  /\ InitFiles

Init == InitCRM /\ InitNspd /\ InitGeometry /\ InitOps

\* Any polygon is handed to _calculate_polygon_centroid.
InitCentroid ==
  /\ InitCRM
  /\ InitNspd
  /\ InitOps
  /\ polygon_wgs84 \in Polygons
  /\ centroid = None
  /\ geometry = NoGeometry
  /\ ordered = None

NextCentroid == CalculateCentroid

\* _calculate_polygon_centroid alone.
SpecCentroid == InitCentroid /\ [][NextCentroid]_vars

\* Any point or polygon is found by get_object_info.
InitReorder ==
  /\ InitCRM
  /\ InitNspd
  /\ InitOps
  /\ polygon_wgs84 = <<>>
  /\ centroid = None
  /\ geometry \in OrderedGeometries
  /\ ordered = None

NextReorder == \E order \in {"lon,lat", "lat,lon"} : ApplyCoordsOrder(order)

\* The coordinate order of get_object_info alone.
SpecReorder == InitReorder /\ [][NextReorder]_vars

\* The CRM client alone.
SpecToken == Init /\ [][NextCRM]_vars

\* The geoportal client alone.
SpecBreaker == Init /\ [][NextNspd]_vars

\* The geoportal client with every kind of feature in the search answers.
NextLookup ==
  \/ \E t \in Tasks : GetObjectInfo(t)
  \/ \E t \in Tasks, out \in SearchSuccesses, f \in SearchFeatures :
       SearchSuccess(t, out, f)
  \/ \E t \in Tasks, out \in SearchFailures : SearchFailure(t, out)
  \/ \E t \in Tasks, out \in SearchErrors : SearchError(t, out)
  \/ \E t \in Tasks, out \in RelatedOutcomes : RelatedRespond(t, out)
  \/ NspdTick

SpecLookup == Init /\ [][NextLookup]_vars

NextRecovery == NextNspd \/ Recover

\* The geoportal client with an outage that may end. Time passes, every HTTP
\* request is answered (the httpx client has a timeout) and get_object_info
\* keeps being called.
SpecRecovery ==
  /\ Init
  /\ [][NextRecovery]_vars
  /\ WF_vars(NspdTick)
  /\ WF_vars(\E t \in Tasks : GetObjectInfo(t))
  /\ WF_vars(\E t \in Tasks, out \in SearchSuccesses, f \in PlainFeatures :
               SearchSuccess(t, out, f))
  /\ WF_vars(\E t \in Tasks, out \in RelatedOutcomes : RelatedRespond(t, out))

\* Any answer of the CRM is under enrichment.
InitEnrichment ==
  /\ InitCRM
  /\ InitNspd
  /\ InitGeometry
  /\ InitAttach
  /\ validated = None
  /\ created = None
  /\ performed = None
  /\ InitTicket
  /\ InitMap
  /\ InitRace
  /\ InitFiles
  /\ response \in Responses
  /\ deals = None

NextEnrichment ==
  \/ \E start_date \in Days, end_date \in Days, answer \in DealsAnswers :
       GetDealsForDateRange(start_date, end_date, answer)
  \/ \E answer \in DealsAnswers : GetDeals(answer)

\* The employee enrichment alone, by either method.
SpecEnrichment == InitEnrichment /\ [][NextEnrichment]_vars

\* A deal holds any files in its two file fields.
InitAttachment ==
  /\ InitCRM
  /\ InitNspd
  /\ InitGeometry
  /\ InitEnrich
  /\ validated = None
  /\ created = None
  /\ performed = None
  /\ InitTicket
  /\ InitMap
  /\ InitRace
  /\ InitFiles
  /\ deal_files \in [FileFields -> SUBSET FileIds]
  /\ attached = None

NextAttachment ==
  \/ \E field \in FileFields, arg \in FileIdArgs, fetch \in FetchOutcomes,
        post \in PostOutcomes : AttachFilesToDeal(field, arg, fetch, post)
  \/ \E field \in FileFields, arg \in FileIdArgs, post \in PostOutcomes :
       GenericAttachFilesToDealField(field, arg, post)

\* One attach call on a deal, by either version of the methods.
SpecAttachment == InitAttachment /\ [][NextAttachment]_vars

\* Any answer of the CRM is to be returned as typed deals.
InitTyped ==
  /\ InitCRM
  /\ InitNspd
  /\ InitGeometry
  /\ InitAttach
  /\ validated = None
  /\ created = None
  /\ performed = None
  /\ InitTicket
  /\ InitMap
  /\ InitRace
  /\ InitFiles
  /\ response \in ModelResponses
  /\ deals = None

NextTyped ==
  \E start_date \in Days, end_date \in Days, answer \in DealsAnswers :
    GetDealsForDateRangeModel(start_date, end_date, answer)

\* get_deals_for_date_range_model alone.
SpecTyped == InitTyped /\ [][NextTyped]_vars

NextCreate ==
  \E dt \in {None} \cup {Some(d) : d \in VisitDatetimes}, out \in CreateOutcomes :
    CreateDeal(dt, out)

\* create_deal alone.
SpecCreate == Init /\ [][NextCreate]_vars

\* No public operation of the CRM client has been called yet.
NoOperationYet ==
  /\ deals = None
  /\ attached = None
  /\ validated = None
  /\ created = None
  /\ performed = None

\* An answer of at most one deal is what the CRM holds.
InitOperations ==
  /\ InitCRM
  /\ InitNspd
  /\ InitGeometry
  /\ InitAttach
  /\ validated = None
  /\ created = None
  /\ performed = None
  /\ InitTicket
  /\ InitMap
  /\ InitRace
  /\ InitFiles
  /\ response \in {r \in ModelResponses : Len(r) <= 1}
  /\ deals = None

NextOperations ==
  /\ NoOperationYet
  /\ \/ NextEnrichment
     \/ NextTyped
     \/ NextAttachment
     \/ NextCreate
     \/ \E answer \in DataAnswers : GetDealById(answer)
     \/ \E has_update_data \in BOOLEAN, answer \in DataAnswers :
          UpdateDeal(has_update_data, answer)
     \/ \E answer \in UploadAnswers : UploadFileFromBytes(answer)

\* One call of any public operation of the CRM client.
SpecOperations == InitOperations /\ [][NextOperations]_vars

\* Any limits are set when the conversation starts.
InitTicketFlow ==
  /\ InitCRM
  /\ InitNspd
  /\ InitGeometry
  /\ InitEnrich
  /\ InitAttach
  /\ validated = None
  /\ created = None
  /\ performed = None
  /\ InitMap
  /\ InitRace
  /\ InitFiles
  /\ fsm_state = "none"
  /\ fsm_data = NoFsmData
  /\ limits \in LimitSettings
  /\ tev = NoTicketEvent

NextTicket ==
  \/ \E deals_for_period \in PeriodDeals, failed \in BOOLEAN :
       StartAddTicket(deals_for_period, failed)
  \/ ProcessCustomDateRequest
  \/ \E target_date \in Days : ProcessVisitDate(target_date)

\* The choice of the visit date in the ticket-creation conversation.
SpecTicket == InitTicketFlow /\ [][NextTicket]_vars

NextMap ==
  \/ \E token \in MapTokens, deals_data_json \in DealsDataJson,
        expires_in_minutes \in 1..MaxExpiresIn, driver \in Drivers :
       CreateMapRequest(token, deals_data_json, expires_in_minutes, driver)
  \/ \E token \in MapTokens : GetMapDataByToken(token)
  \/ MapTick

\* The map-data endpoint and the rows the bot creates for it.
SpecMap == Init /\ [][NextMap]_vars

\* A field that holds any of the ids, and no attach call yet.
InitRaceCalls ==
  /\ InitCRM
  /\ InitNspd
  /\ InitGeometry
  /\ InitEnrich
  /\ validated = None
  /\ created = None
  /\ performed = None
  /\ InitTicket
  /\ InitMap
  /\ InitFiles
  /\ attached = None
  /\ attach_start \in SUBSET FileIds
  /\ deal_files = [f \in FileFields |-> IF f = VisitDocsField THEN attach_start ELSE {}]
  /\ attach_calls = [t \in Tasks |-> NoAttachCall]

NextRace ==
  \/ \E t \in Tasks, arg \in FileIdArgs : AttachStart(t, arg)
  \/ \E t \in Tasks, fetch \in FetchOutcomes : AttachFetched(t, fetch)
  \/ \E t \in Tasks, post \in PostOutcomes : AttachPosted(t, post)

\* Attach calls of concurrent tasks on one field of one deal.
SpecRace == InitRaceCalls /\ [][NextRace]_vars

NextFiles ==
  \/ StartAddFiles
  \/ \E t \in Tasks, file \in MessageFiles : ProcessFile(t, file)
  \/ \E t \in Tasks, out \in DownloadOutcomes : FileDownloaded(t, out)
  \/ \E t \in Tasks, out \in UploadOutcomes : FileUploaded(t, out)
  \/ CompleteAddFiles
  \/ \E success \in AttachResults : FilesAttached(success)

\* One add-files conversation, its files handled by concurrent tasks.
SpecFiles == Init /\ [][NextFiles]_vars

\* Either client is called by concurrent tasks: the CRM client while the
\* geoportal client is untouched, or the other way round.
NextLocks ==
  \/ nspd_calls = 0 /\ nspd_now = 0 /\ NextCRM
  \/ calls = 0 /\ now = 0 /\ NextNspd

\* The step that resumes task t inside a client call: the lock is granted to
\* it, or the request it awaits is answered (or times out).
Resume(t) ==
  \/ GatAcquire(t)
  \/ InvalidateAcquire(t)
  \/ \E tok \in Tokens, e \in DeclaredLifetimes : LoginOk(t, tok, e)
  \/ \E f \in LoginFailures : LoginFail(t, f)
  \/ RequestOk(t)
  \/ \E f \in RequestFailures : RequestFail(t, f)
  \/ \E out \in SearchSuccesses, f \in PlainFeatures : SearchSuccess(t, out, f)
  \/ \E out \in SearchFailures : SearchFailure(t, out)
  \/ \E out \in SearchErrors : SearchError(t, out)
  \/ \E out \in RelatedOutcomes : RelatedRespond(t, out)

\* Every network request is answered (the httpx clients have timeouts) and the
\* event loop runs every task that is ready.
SpecLocks ==
  /\ Init
  /\ [][NextLocks]_vars
  /\ \A t \in Tasks : WF_vars(Resume(t))

(* ------------------------- claims: CRMClient --------------------------- *)

C2_SecondCallReusesToken ==
  [][(/\ ev'.kind \in {"body_reuse", "body_login"}
      /\ prev.logins = 1
      /\ Truthy(prev.ret)
      /\ pending_inval = "no"
      /\ token_expires_at # None
      /\ now < token_expires_at[1])
     => (/\ ev'.kind = "body_reuse"
         /\ ev'.gat.done
         /\ ev'.gat.ret = prev.ret
         /\ prev.logins + ev'.gat.logins = 1)]_vars

\* Two calls were made in all: the first logged in, the second reused its token.
C2_Witness ==
  /\ calls = 2
  /\ ev.kind = "body_reuse"
  /\ ev.gat.ret = access_token
  /\ Truthy(access_token)
  /\ \A t \in Tasks : crm_pc[t] \in {"idle", "req_send"}

\* C3: the step that handles a 401 clears the stored token and makes _request
\* return None; the next get_access_token call that runs starts a login
\* exchange, whatever the stored expiry is.
C3_InvalidationForcesLogin ==
  [][/\ (ev'.kind = "clear401" =>
           /\ ev'.out = "http_401"
           /\ access_token' = None
           /\ ev'.req = "None"
           /\ crm_pc'[ev'.task] = "idle")
     /\ ((pending_inval = "pending" /\ ev'.kind \in {"body_reuse", "body_login"})
           => ev'.kind = "body_login")]_vars

\* A login forced by a 401 is in flight although the stored expiry of the
\* rejected token is still in the future.
C3_Witness ==
  /\ pending_inval = "relogin"
  /\ token_expires_at # None
  /\ token_expires_at[1] > now
  /\ \E t \in Tasks : crm_pc[t] = "gat_login"

\* C4: _is_token_valid reports a token as valid, and get_access_token reuses
\* it without a login, only while now < time of the login that issued it +
\* declared expires_in - 60.
C4_ValidOnlyInsideWindow ==
  /\ IsTokenValid => InWindow
  /\ ev.kind = "body_reuse" => InWindow

\* A token with a declared lifetime of 90 seconds was reused.
C4_Witness ==
  /\ ev.kind = "body_reuse"
  /\ issue # None
  /\ issue[1].expires_in = 90

\* C5 (as stated): every non-None token returned by get_access_token is, at
\* the instant it is returned, before the stored buffer-adjusted expiry.
C5_ReturnedTokenIsFresh ==
  (ev.gat.done /\ ev.gat.ret # None) => ev.gat.fresh

\* C6: at most one login exchange is in flight.
C6_AtMostOneLoginInFlight ==
  Cardinality({t \in Tasks : crm_pc[t] = "gat_login"}) <= 1

\* A login is in flight while another caller waits for the lock.
C6_Witness ==
  \E t, u \in Tasks : crm_pc[t] = "gat_login" /\ crm_pc[u] = "gat_acquire"

\* C7: when the login exchange fails, get_access_token returns None having
\* made that one login attempt, and afterwards no token is stored (None, or
\* the empty string the response carried) and no expiry.
C7_FailedLoginClearsCredential ==
  ev.kind = "login_fail" =>
    /\ ev.out \in LoginFailures
    /\ ev.gat.done
    /\ ev.gat.ret = None
    /\ ev.gat.logins = 1
    /\ ~Truthy(access_token)
    /\ token_expires_at = None
    /\ crm_pc[ev.task] = "idle"

\* A login failed for a caller that found an expired token stored.
C7_Witness ==
  /\ ev.kind = "login_fail"
  /\ ev.out = "http_error"
  /\ calls >= 2
  /\ access_token = None

\* C28: every request that _request has sent carries the token that
\* get_access_token returned within the same _request call, and when
\* get_access_token returns no token _request returns None and sends nothing.
C28_RequestCarriesReturnedToken ==
  /\ \A t \in Tasks :
       crm_pc[t] \in {"req_send", "req_401"} =>
         crm_tok[t] \in {Some(k) : k \in Tokens}
  /\ (ev.gat.done /\ crm_pc[ev.task] = "req_send") => crm_tok[ev.task] = ev.gat.ret
  /\ (ev.gat.done /\ ev.gat.ret \notin {Some(k) : k \in Tokens}) =>
       /\ crm_pc[ev.task] = "idle"
       /\ crm_tok[ev.task] = None
       /\ ev.req \in {"None", "-"}
  /\ ev.req = "None" => crm_pc[ev.task] = "idle"

\* A request is in flight with the token its call was given while the client
\* stores no token any more.
C28_Witness ==
  \E t \in Tasks :
    /\ crm_pc[t] = "req_send"
    /\ crm_tok[t] = Some("T1")
    /\ access_token = None

\* get_access_token has returned None inside _request, which returned None.
C28_WitnessNoToken ==
  /\ ev.gat.done
  /\ ev.gat.ret = None
  /\ ev.req = "None"

\* C31: a 401 answer to a request sent with token T clears the stored token
\* only when the stored token is still T; a token stored by a later login is
\* not cleared by the late 401 of a request sent with an earlier token.
C31_Late401ClearsOnlyItsOwnToken ==
  [][ev'.kind = "clear401" =>
       (access_token = None \/ access_token = crm_tok[ev'.task])]_vars

\* C36: a CRM request that fails for a reason other than HTTP 401 (another
\* error status, a network error or timeout, an undecodable body) leaves the
\* stored token and its expiry unchanged, so that a token that was valid is
\* still valid for the next request.
C36_OtherFailuresKeepToken ==
  [][(/\ ev'.kind \in {"req_fail", "clear401", "wait401"}
      /\ ev'.out \in RequestFailures \ {"http_401"})
     => (/\ ev'.req = "None"
         /\ access_token' = access_token
         /\ token_expires_at' = token_expires_at
         /\ IsTokenValid' = IsTokenValid)]_vars

\* A request has failed with an HTTP error status other than 401 and the
\* token it was sent with is still stored and valid.
C36_Witness ==
  /\ ev.kind = "req_fail"
  /\ ev.out = "http_error"
  /\ ev.req = "None"
  /\ access_token # None
  /\ IsTokenValid

(* ------------------------- claims: NspdClient -------------------------- *)

C9_RecoversThroughHalfOpen ==
  /\ (/\ nev.kind = "call"
      /\ nev.before = "OPEN"
      /\ nev.at > nev.lft_before[1] + cooldown_minutes)
     => (/\ circuit_state = "HALF_OPEN"
         /\ nev.sent
         /\ nspd_pc[nev.task] = "search")
  /\ (nev.kind = "search_resp" /\ nev.out \in SearchSuccesses)
     => (/\ circuit_state = "CLOSED"
         /\ failure_count = 0)
  /\ (nev.before = "CLOSED" /\ circuit_state = "OPEN")
     => consec_fails >= failure_threshold

\* The trial request of a HALF_OPEN breaker succeeded and closed it.
C9_Witness ==
  /\ nev.kind = "search_resp"
  /\ nev.trial
  /\ nev.before = "HALF_OPEN"
  /\ nev.count_before = failure_threshold
  /\ nev.out = "found"
  /\ circuit_state = "CLOSED"
  /\ failure_count = 0

\* C10 (as stated): when the trial request issued in HALF_OPEN fails, the
\* breaker is OPEN again and the last-failure time is the time of that failure.
C10_TrialFailureReopens ==
  (/\ nev.kind = "search_resp"
   /\ nev.trial
   /\ nev.before = "HALF_OPEN"
   /\ nev.out \in SearchFailures \cup SearchErrors)
  => (/\ circuit_state = "OPEN"
      /\ last_failure_time = Some(nev.at))

\* C11: every recorded success leaves the failure count 0 and the breaker
\* CLOSED; a recorded failure in CLOSED that keeps the count below the threshold
\* adds one to the count and leaves the breaker CLOSED; hence while the last two
\* handlers run were a success and then a failure, the breaker is CLOSED with
\* count 1 (fail, success, fail does not open it).
C11_CountsConsecutiveFailures ==
  /\ nev.handler = "success" =>
       (failure_count = 0 /\ circuit_state = "CLOSED")
  /\ (/\ nev.handler = "failure"
      /\ nev.before = "CLOSED"
      /\ nev.count_before + 1 < failure_threshold)
     => (/\ failure_count = nev.count_before + 1
         /\ circuit_state = "CLOSED")
  /\ (recorded[2] = "success" /\ recorded[3] = "failure")
     => (/\ circuit_state = "CLOSED"
         /\ failure_count = 1)

\* A failure, a success and a failure were recorded in this order, the last
\* just now, and the breaker is CLOSED.
C11_Witness ==
  /\ recorded = <<"failure", "success", "failure">>
  /\ nev.handler = "failure"
  /\ nev.count_before = 0
  /\ circuit_state = "CLOSED"

\* C12 (as stated): of the search requests issued while the breaker was
\* HALF_OPEN, at most one is in flight.
C12_OneTrialInHalfOpen ==
  Cardinality({t \in Tasks : nspd_pc[t] = "search" /\ nspd_trial[t]}) <= 1

\* C13 (as stated): while every search request fails, any two search requests
\* issued after the breaker opened are at least a cooldown apart (at most one
\* request per cooldown window).
C13_OneRequestPerCooldown ==
  (/\ nev.kind = "call"
   /\ nev.sent
   /\ nev.before \in {"OPEN", "HALF_OPEN"}
   /\ nev.sent_before # None)
  => nev.at >= nev.sent_before[1] + cooldown_minutes

\* C14: once every search request succeeds, with get_object_info being called
\* again and again, the breaker eventually is CLOSED and stays CLOSED.
C14_RecoversAutomatically ==
  (upstream = "healthy") ~> [](circuit_state = "CLOSED")

\* The upstream recovered while the breaker was OPEN; after the wait for the
\* end of the cooldown a trial request succeeded and closed the breaker.
C14_Witness ==
  /\ upstream = "healthy"
  /\ nspd_now > NspdMaxTicks * NspdTimeStep
  /\ nev.kind = "search_resp"
  /\ nev.trial
  /\ nev.before = "HALF_OPEN"
  /\ circuit_state = "CLOSED"

\* C15: get_object_info never raises: in every breaker state, every step in
\* which a call ends (fail-fast, after the search answer, after the
\* tab-group-data answer) returns None or a CadastralObject.
C15_NeverRaises ==
  /\ nev.ret # "raise"
  /\ (nev.kind \in {"call", "search_resp", "related_resp"}
      /\ nspd_pc[nev.task] = "idle")
     => (/\ nev.ret \in {"None", "object"}
         /\ (nev.ret = "object") <=> (nev.obj # None))

\* A trial call of a HALF_OPEN breaker found a feature that failed model
\* validation and returned None.
C15_Witness ==
  /\ nev.kind = "search_resp"
  /\ nev.before = "HALF_OPEN"
  /\ nev.feature = Some([geom |-> "MultiPolygon"])
  /\ nev.out = "found"
  /\ nev.ret = "None"

\* C16 (as stated): a search answer that cannot be decoded, or is decodable
\* JSON of an unexpected shape, is recorded by _handle_failure.
C16_MalformedCountsAsFailure ==
  (nev.kind = "search_resp" /\ nev.out \in {"json_decode", "bad_shape"})
  => nev.handler = "failure"

\* C17 (as stated): when the search found a feature that passes validation,
\* every failure of the tab-group-data request still yields the object, without
\* related numbers, and leaves the breaker as it was.
C17_RelatedFailureIsSwallowed ==
  (/\ nev.kind = "related_resp"
   /\ nev.out \in {"non_200", "request_error", "json_decode", "bad_shape"}
   /\ ModelValidate(ResultData(nev.feature[1], None)))
  => (/\ nev.ret = "object"
      /\ nev.obj # None
      /\ nev.obj[1].related_cadastral_numbers = None
      /\ circuit_state = nev.before
      /\ failure_count = nev.count_before
      /\ last_failure_time = nev.lft_before)

\* C18 (as stated): a found feature whose geometry has coordinates and a type
\* other than Point and Polygon gives an object that keeps original_geometry
\* and has neither coordinates_wgs84 nor centroid_wgs84.
C18_OtherGeometryPassesThrough ==
  (/\ \/ nev.kind = "search_resp" /\ nev.out = "found"
      \/ nev.kind = "related_resp" /\ nev.out \in {"ok_list", "ok_empty"}
   /\ nev.feature[1].geom \notin {"absent", "Point", "Polygon"})
  => (/\ nev.ret = "object"
      /\ nev.obj # None
      /\ nev.obj[1].original_geometry # None
      /\ nev.obj[1].coordinates_wgs84 = None
      /\ nev.obj[1].centroid_wgs84 = None)

\* C19: in every object returned, a centroid is present only with geometry
\* type Polygon and coordinates present; with Point geometry and with no
\* geometry there is no centroid.
C19_CentroidOnlyForPolygon ==
  nev.obj # None =>
    /\ nev.obj[1].centroid_wgs84 # None =>
         (/\ nev.obj[1].geometry_type = Some("Polygon")
          /\ nev.obj[1].coordinates_wgs84 # None)
    /\ nev.obj[1].geometry_type \in {None, Some("Point")} =>
         nev.obj[1].centroid_wgs84 = None

\* Objects were returned for a Polygon with its centroid, after the
\* tab-group-data answer.
C19_Witness ==
  /\ nev.kind = "related_resp"
  /\ nev.ret = "object"
  /\ nev.obj[1].geometry_type = Some("Polygon")
  /\ nev.obj[1].centroid_wgs84 # None
  /\ nev.obj[1].related_cadastral_numbers # None

\* C32: the breaker never moves from OPEN directly to CLOSED, also when a
\* search request started while CLOSED completes after the circuit has opened:
\* every change from OPEN to CLOSED passes through HALF_OPEN.
C32_NeverOpenToClosed ==
  [][~(circuit_state = "OPEN" /\ circuit_state' = "CLOSED")]_vars

\* C33: in every reachable state the breaker is CLOSED exactly when the
\* failure count is below the failure threshold, and whenever the breaker is
\* OPEN or HALF_OPEN the last-failure timestamp is set, so that the cooldown
\* comparison of get_object_info is defined.
C33_StateCountAndTimestampAgree ==
  /\ (circuit_state = "CLOSED") <=> (failure_count < failure_threshold)
  /\ circuit_state \in {"OPEN", "HALF_OPEN"} => last_failure_time # None

\* The breaker is HALF_OPEN after a cooldown, and a failure recorded after
\* it opened has taken the count above the threshold.
C33_Witness ==
  /\ circuit_state = "HALF_OPEN"
  /\ failure_count > failure_threshold
  /\ last_failure_time # None
  /\ nspd_now > last_failure_time[1] + cooldown_minutes

\* C34: a get_object_info call that finds the breaker OPEN with the cooldown
\* not elapsed is rejected at once and leaves the breaker state, the failure
\* count and the last-failure timestamp unchanged: a rejected call does not
\* extend the cooldown.
C34_RejectedCallChangesNothing ==
  [][(/\ nev'.kind = "call"
      /\ circuit_state = "OPEN"
      /\ nspd_now <= last_failure_time[1] + cooldown_minutes)
     => (/\ nev'.ret = "None"
         /\ circuit_state' = circuit_state
         /\ failure_count' = failure_count
         /\ last_failure_time' = last_failure_time)]_vars

\* A call is rejected some minutes after the failure that opened the breaker,
\* and the cooldown still ends when it would have ended without the call.
C34_Witness ==
  /\ nev.kind = "call"
  /\ nev.ret = "None"
  /\ nev.before = "OPEN"
  /\ nev.at > nev.lft_before[1]
  /\ circuit_state = "OPEN"
  /\ last_failure_time # None
  /\ last_failure_time[1] + cooldown_minutes = nev.lft_before[1] + cooldown_minutes
  /\ failure_count = nev.count_before

\* C37: when the breaker is HALF_OPEN and the search request of the trial
\* completes, with any outcome, the breaker has left HALF_OPEN for CLOSED or
\* OPEN before get_object_info returns.
C37_TrialLeavesHalfOpen ==
  (/\ nev.kind = "search_resp"
   /\ nev.trial
   /\ nev.before = "HALF_OPEN") =>
    circuit_state \in {"CLOSED", "OPEN"}

(* -------------------------- claims: geometry --------------------------- *)

\* C20: for an outer ring of n >= 2 vertices _calculate_polygon_centroid
\* returns the sum of the first n-1 vertices divided by n-1 (the last, closing
\* vertex is left out); the ring [(0,0),(0,2),(2,0),(0,0)] gives (2/3, 2/3);
\* and the inner rings do not affect the result.
C20_CentroidIsMeanWithoutClosingVertex ==
  centroid # None =>
    LET ring == polygon_wgs84[1]
        n == Len(ring)
        c == centroid[1]
        FirstSum(k) == SumOf(ring, k) - ring[n][k]
    IN /\ n >= 2 =>
            /\ Len(c) = 2
            /\ \A k \in 1..2 : c[k].den > 0 /\ c[k].num * (n - 1) = FirstSum(k) * c[k].den
       /\ ring = <<(<<0, 0>>), (<<0, 2>>), (<<2, 0>>), (<<0, 0>>)>> =>
            \A k \in 1..2 : c[k].num * 3 = 2 * c[k].den
       /\ c = CalculatePolygonCentroid(<<ring>>)

\* The centroid of the triangle [(0,0),(0,2),(2,0),(0,0)] with a hole was
\* computed.
C20_Witness ==
  /\ centroid # None
  /\ Len(polygon_wgs84) = 2
  /\ polygon_wgs84[1] = <<(<<0, 0>>), (<<0, 2>>), (<<2, 0>>), (<<0, 0>>)>>
  /\ centroid[1] = <<Div(2, 3), Div(2, 3)>>

\* C21 (as stated): for an outer ring with zero or one distinct point (empty,
\* one vertex, one vertex repeated) _calculate_polygon_centroid returns the
\* empty list, and it never divides by zero.
C21_DegenerateRingHasNoCentroid ==
  centroid # None =>
    /\ \A k \in 1..Len(centroid[1]) : centroid[1][k].den # 0
    /\ Cardinality({polygon_wgs84[1][i] : i \in 1..Len(polygon_wgs84[1])}) <= 1
         => centroid[1] = <<>>

\* C22: for the same geometry the 'lat,lon' coordinates are the 'lon,lat'
\* coordinates with the two components swapped: in the point, in every vertex
\* of every ring of the polygon (same number of rings and of vertices, same
\* vertex order) and in the centroid; the 'lon,lat' result is the geometry as
\* found; and swapping twice gives the original pair.
C22_ReorderingIsElementwiseSwap ==
  ordered # None =>
    LET o == ordered[1]
        base == CoordsInOrder(geometry, "lon,lat")
        base_centroid == CentroidInOrder(geometry, "lon,lat")
        Swap(pt) == <<pt[2], pt[1]>>
    IN /\ base = geometry.coordinates
       /\ o.order = "lon,lat" =>
            (o.coordinates_wgs84 = base /\ o.centroid_wgs84 = base_centroid)
       /\ (o.order = "lat,lon" /\ geometry.type = "Point") =>
            /\ o.coordinates_wgs84 = Swap(base)
            /\ o.centroid_wgs84 = None
            /\ PyReverse(o.coordinates_wgs84) = base
       /\ (o.order = "lat,lon" /\ geometry.type = "Polygon") =>
            /\ Len(o.coordinates_wgs84) = Len(base)
            /\ \A r \in 1..Len(base) :
                 /\ Len(o.coordinates_wgs84[r]) = Len(base[r])
                 /\ \A i \in 1..Len(base[r]) :
                      o.coordinates_wgs84[r][i] = Swap(base[r][i])
            /\ SwapVertices(o.coordinates_wgs84) = base
            /\ o.centroid_wgs84 # None
            /\ IF base_centroid[1] = <<>>
               THEN o.centroid_wgs84[1] = <<>>
               ELSE /\ o.centroid_wgs84[1] = Swap(base_centroid[1])
                    /\ PyReverse(o.centroid_wgs84[1]) = base_centroid[1]

\* A polygon with a hole was returned in 'lat,lon' order, its centroid
\* (9/3, 1/3) swapped from (1/3, 9/3).
C22_Witness ==
  /\ ordered # None
  /\ ordered[1].order = "lat,lon"
  /\ geometry.type = "Polygon"
  /\ Len(geometry.coordinates) = 2
  /\ geometry.coordinates[1] = <<(<<0, 2>>), (<<2, 3>>), (<<-1, 4>>), (<<0, 2>>)>>
  /\ ordered[1].centroid_wgs84 = Some(<<Div(9, 3), Div(1, 3)>>)

(* ------------------------ claims: CRM operations ----------------------- *)

\* C23: after the employee enrichment of one answer, every stub of the answer
\* (an employee dict with "id" and without "name"), wherever it stands, whose
\* id is the id of a full record of the same answer, reports the name of such
\* a record.
C23_EveryMatchedStubIsEnriched ==
  (deals # None /\ deals[1].ret = "list") =>
    \A pos \in MatchedStubs(response) :
      LET after == NodeAt(deals[1].data, pos)
      IN /\ after # None
         /\ after[1].name # None
         /\ after[1].name[1] \in FullNames(response, NodeAt(response, pos)[1].id)

\* C23 for the recursive enrichment of get_deals_for_date_range alone.
C23_RecursiveEnrichment ==
  (deals # None /\ deals[1].by = "get_deals_for_date_range") =>
    C23_EveryMatchedStubIsEnriched

\* C24: after a successful attach call with new file ids F on a field that
\* holds the file ids E, the list written to the field is the deduplicated
\* union of E and F: it holds every id of E and of F once and nothing else.
C24_AttachmentIsAdditive ==
  (/\ attached # None
   /\ attached[1].ret = "True"
   /\ AllItemsAreIds(attached[1].arg)) =>
    /\ attached[1].written # None
    /\ Range(attached[1].written[1]) =
         attached[1].held \cup NewFileIds(attached[1].arg)
    /\ Len(attached[1].written[1]) = Cardinality(Range(attached[1].written[1]))

\* C24 for the methods of temp/exported_files alone.
C24_ExportedAttachIsAdditive ==
  (attached # None /\ attached[1].by = "attach_files_to_deal") =>
    C24_AttachmentIsAdditive

C24_Witness ==
  /\ attached # None
  /\ attached[1].by = "attach_files_to_deal"
  /\ attached[1].ret = "True"
  /\ attached[1].field = "attaches"
  /\ attached[1].held = {"10"}
  /\ attached[1].arg = [type |-> "list", items |-> <<PyOfInt(20)>>]
  /\ deal_files["attaches"] = {"10", "20"}

\* C25: get_deals_for_date_range_model has no partial results: when a deal of
\* the answer fails the validation of the typed model the call returns None,
\* otherwise it returns one Deal per raw deal of the answer, in the same order.
C25_NoPartialResults ==
  (validated # None /\ validated[1].raw_deals.ret = "list") =>
    LET raw_deals == validated[1].raw_deals.data
        failing == {i \in DOMAIN raw_deals : ValidationOutcome(raw_deals[i]) # "Deal"}
    IN IF failing # {}
       THEN validated[1].ret = "None"
       ELSE /\ validated[1].ret = "list"
            /\ Len(validated[1].models) = Len(raw_deals)
            /\ \A i \in DOMAIN raw_deals :
                 validated[1].models[i] = DealModel(raw_deals[i])

\* C25 for the answers none of whose deals has a visit time that overflows.
C25_NoPartialResultsWithoutOverflow ==
  (validated # None
     /\ \A i \in DOMAIN validated[1].raw_deals.data :
          validated[1].raw_deals.data[i].visit # "out_of_range") =>
    C25_NoPartialResults

\* C26: the visit time create_deal sends always carries the offset +00:00; a
\* naive input with the wall-clock time W is sent as W minus two hours, an
\* input that carries an offset is sent as the same instant in UTC.
C26_VisitTimeIsSentInUtc ==
  (created # None /\ created[1].ticket_visit_datetime # None) =>
    LET dt == created[1].ticket_visit_datetime[1]
        sent == created[1].visit_value
    IN /\ sent # None
       /\ sent[1].suffix = [sign |-> "+", hh |-> "00", mm |-> "00"]
       /\ dt.tz # "aware" => sent[1].wall = dt.wall - 2 * 60
       /\ dt.tz = "aware" => sent[1].wall = dt.wall - dt.offset

C26_Witness ==
  /\ created # None
  /\ created[1].ticket_visit_datetime = Some(Aware(90, 330))
  /\ created[1].visit_value # None
  /\ created[1].visit_value[1].wall = -240

C26_WitnessNaive ==
  /\ created # None
  /\ created[1].ticket_visit_datetime = Some(Naive(45))
  /\ created[1].visit_value # None
  /\ created[1].visit_value[1].wall = -75

\* C27: a public operation of the CRM client reports every failure as None or
\* False: whatever its input and whatever the CRM answers, it returns and does
\* not raise.
C27_FailuresAreNeverRaised ==
  /\ deals # None => deals[1].ret \in {"list", "None"}
  /\ validated # None => validated[1].ret \in {"list", "None"}
  /\ attached # None => attached[1].ret \in {"True", "False"}
  /\ created # None => created[1].ret \in {"created_deal", "None"}
  /\ performed # None => performed[1].ret # "raise"

(* ------------------------- claims: bot and map ------------------------- *)

\* C29: when the deals already scheduled on the chosen date are as many as the
\* limit of that date or more, process_visit_date leaves the user in
\* waiting_for_visit_date and does not go on to waiting_for_visit_time.
C29_LimitReachedKeepsDateState ==
  (/\ tev.handler = "process_visit_date"
   /\ CountOnDate(fsm_data.deals_on_period, tev.target_date)
        >= GetActualLimitForDate(tev.target_date)) =>
    fsm_state = "waiting_for_visit_date"

C30_WitnessServed ==
  /\ mev.token = "b"
  /\ mev.status = 200
  /\ mev.body = "deals_data"
  /\ mev.at = Timestamp(map_requests["b"][1].expires_at)

\* C35: when two concurrent attach calls on the same field, with new ids F1
\* and F2 on a field holding E, have both returned True, the field holds the
\* union of E, F1 and F2.
C35_ConcurrentAttachKeepsBoth ==
  (\A t \in Tasks : attach_calls[t].pc = "done" /\ attach_calls[t].ret = "True") =>
    deal_files[VisitDocsField] =
      attach_start \cup UNION {attach_calls[t].new : t \in Tasks}

\* The same for calls whose POST the CRM answered without errors.
C35_ConcurrentAttachKeepsBothWhenStored ==
  (\A t \in Tasks : attach_calls[t].pc = "done" /\ attach_calls[t].post = "ok") =>
    deal_files[VisitDocsField] =
      attach_start \cup UNION {attach_calls[t].new : t \in Tasks}

\* C39: every file that process_file uploaded to the CRM while the add-files
\* conversation was running is in the uploaded_file_ids list that
\* complete_add_files attaches, also when the files are handled by process_file
\* tasks running concurrently.
C39_EveryUploadIsAttached ==
  files_complete.pc = "done" =>
    \A u \in files_uploaded :
      u.state = "waiting_for_files" =>
        \E i \in DOMAIN files_complete.uploaded_file_ids :
          files_complete.uploaded_file_ids[i] = u.id

\* Every id uploaded before complete_add_files read the FSM data is in the
\* list it read: no id is lost by the appends of concurrent process_file tasks.
C39_NoAppendIsLost ==
  files_complete.pc # "idle" =>
    \A u \in files_uploaded :
      u.complete = "idle" =>
        \E i \in DOMAIN files_complete.uploaded_file_ids :
          files_complete.uploaded_file_ids[i] = u.id

\* The enrichment by the method that returned the deals.
EnrichedBy(by, ds) ==
  IF by = "get_deals_for_date_range" THEN EnrichDeals(ds) ELSE UpdateExecutors(ds)

\* The places of a tree outside its matched stubs: the places that hold no
\* matched stub and are not nested in one.
OutsideMatchedStubs(ds) ==
  {pos \in Positions \ MatchedStubs(ds) :
     pos.nested => [pos EXCEPT !.nested = FALSE] \notin MatchedStubs(ds)}

\* The number and order of deals and executors of two trees are the same:
\* every executor and manager is in its place with its id, and so is every
\* employee dict outside the matched stubs.
SameShape(before, after) ==
  /\ Len(after) = Len(before)
  /\ \A i \in DOMAIN before :
       Len(after[i].Category1000076CustomFieldViezdIspolnitel) =
         Len(before[i].Category1000076CustomFieldViezdIspolnitel)
  /\ \A pos \in {q \in Positions : ~q.nested} \cup OutsideMatchedStubs(before) :
       /\ (NodeAt(after, pos) = None) <=> (NodeAt(before, pos) = None)
       /\ NodeAt(before, pos) # None =>
            NodeAt(after, pos)[1].id = NodeAt(before, pos)[1].id

\* The keys of an employee dict other than the dict nested in it.
OwnKeys(e) == [contentType |-> e.contentType, id |-> e.id, name |-> e.name]

\* Every employee dict outside the matched stubs has its own keys unchanged,
\* and every deal keeps its own keys.
OnlyMatchedStubsChange(before, after) ==
  /\ \A pos \in OutsideMatchedStubs(before) :
       NodeAt(before, pos) # None =>
         OwnKeys(NodeAt(after, pos)[1]) = OwnKeys(NodeAt(before, pos)[1])
  /\ \A i \in DOMAIN before : after[i].contentType = before[i].contentType

\* C38: the employee enrichment changes nothing but matched stubs (full
\* records, stubs without a full record of their id and the other nodes are
\* unchanged), keeps the number and order of deals and executors, and changes
\* nothing when it is applied a second time.
C38_EnrichmentFrameAndIdempotence ==
  (deals # None /\ deals[1].ret = "list") =>
    /\ SameShape(response, deals[1].data)
    /\ OnlyMatchedStubsChange(response, deals[1].data)
    /\ EnrichedBy(deals[1].by, deals[1].data) = deals[1].data

\* The frame and the order alone, for both methods.
C38_Frame ==
  (deals # None /\ deals[1].ret = "list") =>
    /\ SameShape(response, deals[1].data)
    /\ OnlyMatchedStubsChange(response, deals[1].data)

\* The idempotence alone, for the enrichment of get_deals.
C38_GetDealsIsIdempotent ==
  (deals # None /\ deals[1].ret = "list" /\ deals[1].by = "get_deals") =>
    UpdateExecutors(deals[1].data) = deals[1].data

\* C40: no task waits for a client lock that it holds itself (no task is
\* twice in the queue of the CRM lock, and the locked blocks of NspdClient end
\* within the step that enters them), and every call of either client
\* returns, provided every network request is answered: a task is never
\* inside a client call for ever.
C40_NoDeadlockOnLocks ==
  /\ [](\A i, j \in 1..Len(crm_lock) : crm_lock[i] = crm_lock[j] => i = j)
  /\ \A t \in Tasks : []<>(crm_pc[t] = "idle" /\ nspd_pc[t] = "idle")

\* A 401 invalidation waits for the lock while another task holds it for its
\* login exchange.
C40_Witness ==
  \E t, u \in Tasks :
    /\ crm_pc[t] = "req_401"
    /\ crm_pc[u] = "gat_login"
    /\ crm_lock = <<u, t>>

====
